---- MODULE Spec2Model ----
(***************************************************************************)
(* Model of clout's timed, cancellable command executor                    *)
(* (clout/util.py, class CommandExecutor) and of the three-phase           *)
(* orchestration built on it (clout/run.py,                                *)
(* _execute_commands_and_build_email).                                     *)
(*                                                                         *)
(* Three kinds of process take steps: the main thread (the orchestrator    *)
(* and, inside it, the caller side of CommandExecutor.__call__), the       *)
(* worker thread (CommandExecutor._run_commands) and the child processes   *)
(* spawned by the worker (they exit on their own or when signalled).       *)
(***************************************************************************)
EXTENDS Integers, Sequences, FiniteSets, TLC

\* ---------------------------------------------------------------- bounds
MaxSetupCmds == 3

MaxSuites == 2

MaxTeardownCmds == 2

\* ------------------------------------------------------------- constants
\* signal.SIGTERM, the signal killpg sends; a child killed by it has
\* returncode -SIGTERM.
SIGTERM == 15

\* Python's None for the running-process reference (process ids are 1..n).
NoProcess == 0

\* Exit codes a command may produce when it runs to its natural end.
ExitCodes == {0, 1}

\* The cluster tag argument (an opaque name).
cluster_tag == <<"cluster-tag", 1>>

VARIABLES
    \* arguments of _execute_commands_and_build_email
    test_suites, setup_cmds, test_suites_cmds, teardown_cmds,
    \* locals of _execute_commands_and_build_email
    o_pc, email_body, attachments,
    setup_cmds_succeeded, test_suites_cmds_succeeded, teardown_cmds_succeeded,
    \* fields of the CommandExecutor object
    cmds, log_f, stop_on_first_failure, log_individual_cmds,
    cmds_succeeded, individual_cmds_status,
    running_process, running_process_lock,
    timeout_occurred, timeout_occurred_lock,
    \* position of the caller inside __call__, position and loop index of
    \* the worker inside _run_commands
    c_pc, w_pc, w_i,
    \* the child processes spawned by the current call, in spawn order
    procs,
    \* history: the batches started, the signals sent by the current call,
    \* whether the bounded join of the current call ran into its timeout
    batches, kills, deadline_expired,
    \* history: how many children of the current call had ended when its
    \* bounded join timed out; whether a spawn of the current call failed
    finished_at_expiry, spawn_failed,
    \* the timeout argument of the current call (in half minutes) and the
    \* time, in seconds, its bounded join has been waiting
    timeout, elapsed,
    \* the attachments whose file position was set to the beginning
    rewound,
    \* arguments of run_test_suites (timeouts in half minutes)
    config_f, recipients_f, email_settings_f, cluster_template, spot_bid,
    suppress_spot_bid_check, setup_timeout, test_suites_timeout,
    teardown_timeout,
    \* locals of run_test_suites, the position of the main thread in it (or
    \* in a direct call of one of the pure functions) and the emails sent
    recipients, email_settings, r_pc, sent,
    \* argument and result of format_email_summary
    test_suites_status, summary,
    \* the legacy executor (automated_testing _execute_commands): the position
    \* of the main thread in it, whether a SIGALRM is pending, the loop index,
    \* the return values of the commands run so far, and its locals
    \* cmds_succeeded and individual_cmds_status and argument log_f
    legacy_pc, alarm, legacy_i, legacy_ret_vals, legacy_cmds_succeeded,
    legacy_individual_cmds_status, legacy_log_f

run_args == <<config_f, recipients_f, email_settings_f, cluster_template,
              spot_bid,
              suppress_spot_bid_check, setup_timeout, test_suites_timeout,
              teardown_timeout>>

legacy == <<legacy_pc, alarm, legacy_i, legacy_ret_vals,
            legacy_cmds_succeeded, legacy_individual_cmds_status,
            legacy_log_f>>

inputs == <<test_suites, setup_cmds, test_suites_cmds, teardown_cmds,
            run_args, recipients, email_settings, r_pc, sent,
            test_suites_status, summary, legacy>>

orch == <<o_pc, email_body, attachments, setup_cmds_succeeded,
          test_suites_cmds_succeeded, teardown_cmds_succeeded, batches,
          rewound>>

config == <<cmds, stop_on_first_failure, log_individual_cmds, timeout>>

executor == <<log_f, cmds_succeeded, individual_cmds_status, running_process,
              running_process_lock, timeout_occurred, timeout_occurred_lock,
              c_pc, w_pc, w_i, procs, kills, deadline_expired,
              finished_at_expiry, spawn_failed, elapsed>>

vars == <<test_suites, setup_cmds, test_suites_cmds, teardown_cmds,
          o_pc, email_body, attachments,
          setup_cmds_succeeded, test_suites_cmds_succeeded,
          teardown_cmds_succeeded,
          cmds, log_f, stop_on_first_failure, log_individual_cmds,
          cmds_succeeded, individual_cmds_status,
          running_process, running_process_lock,
          timeout_occurred, timeout_occurred_lock,
          c_pc, w_pc, w_i, procs, batches, kills, deadline_expired,
          finished_at_expiry, spawn_failed, timeout, elapsed, rewound,
          config_f, recipients_f, email_settings_f, cluster_template,
          spot_bid, suppress_spot_bid_check, setup_timeout, test_suites_timeout,
          teardown_timeout, recipients, email_settings, r_pc, sent,
          test_suites_status, summary,
          legacy_pc, alarm, legacy_i, legacy_ret_vals, legacy_cmds_succeeded,
          legacy_individual_cmds_status, legacy_log_f>>

\* ------------------------------------------------------------ data model
\* Commands are opaque strings; a command is identified by its phase and
\* its position in the phase's list.
Cmd(phase, i) == <<phase, i>>

Label(i) == <<"Test", i>>

\* cmd_str + stdout_str + stderr_str
Transcript(cmd, stdout, stderr) ==
    <<"Command:", cmd, "Stdout:", stdout, "Stderr:", stderr>>

Msg(m, a) == [msg |-> m, arg |-> a]

\* seq[k] with Python's indexing (zero-based, negative k counts from the end)
PyIndex(seq, k) == IF k < 0 THEN seq[Len(seq) + k + 1] ELSE seq[k + 1]

\* seq[k:]
PyFrom(seq, k) == SubSeq(seq, k + 1, Len(seq))

Min(a, b) == IF a < b THEN a ELSE b

RECURSIVE format_email_summary_lines(_)
format_email_summary_lines(status) ==
    IF status = <<>> THEN <<>>
    ELSE <<Msg(IF Head(status)[2] = 0 THEN "Pass" ELSE "Fail",
               <<Head(status)[1]>>)>>
         \o format_email_summary_lines(Tail(status))

\* Variant: the blank line that ends the summary is left out.
format_email_summary_NoBlankLine(status) ==
    format_email_summary_lines(status)

format_email_summary(status) ==
    LET summary_lines == format_email_summary_lines(status)
    IN  IF summary_lines # <<>>
          THEN summary_lines \o <<Msg("blank", <<>>)>> ELSE summary_lines

\* ------------------------------------------------------------ clout/parse.py
\* A line of a file is a sequence of characters; a word that is never taken
\* apart stands as one character.
Whitespace == {" ", "\t", "\n"}

\* str.strip()
RECURSIVE lstrip(_)
lstrip(line) ==
    IF line # <<>> /\ Head(line) \in Whitespace
      THEN lstrip(Tail(line)) ELSE line

RECURSIVE rstrip(_)
rstrip(line) ==
    IF line # <<>> /\ line[Len(line)] \in Whitespace
      THEN rstrip(SubSeq(line, 1, Len(line) - 1)) ELSE line

strip(line) == rstrip(lstrip(line))

\* str.split(sep): the fields between the occurrences of sep
RECURSIVE split(_, _)
split(line, sep) ==
    IF \E k \in DOMAIN line : line[k] = sep
      THEN LET k == CHOOSE k \in DOMAIN line :
                        /\ line[k] = sep
                        /\ \A j \in 1..(k - 1) : line[j] # sep
           IN  <<SubSeq(line, 1, k - 1)>>
               \o split(SubSeq(line, k + 1, Len(line)), sep)
      ELSE <<line>>

\* Variant: a comment is only recognised at the very start of the line.
_can_ignore_NoStrip(line) ==
    IF strip(line) # <<>> /\ line[1] # "#" THEN FALSE ELSE TRUE

_can_ignore(line) ==
    IF strip(line) # <<>> /\ strip(line)[1] # "#" THEN FALSE ELSE TRUE

\* The two ways a function ends: raise ValueError(...) and return value.
Raise == [exception |-> "ValueError", value |-> <<>>]

Return(value) == [exception |-> "None", value |-> value]

\* The loop of parse_config_file over the lines left, with the results so
\* far (used_test_suite_names is the labels of the results).
RECURSIVE parse_config_lines(_, _)
parse_config_lines(lines, results) ==
    IF lines = <<>> THEN Return(results)
    ELSE LET line == Head(lines)
             fields == split(strip(line), "\t")
         IN  IF _can_ignore(line)
               THEN parse_config_lines(Tail(lines), results)
             ELSE IF Len(fields) # 2 THEN Raise
             ELSE IF \E k \in DOMAIN results : results[k][1] = fields[1]
               THEN Raise
             ELSE parse_config_lines(Tail(lines), Append(results, fields))

parse_config_file(f) ==
    LET r == parse_config_lines(f, <<>>)
    IN  IF r.exception = "None" /\ Len(r.value) = 0 THEN Raise ELSE r

parse_email_list(email_list_f) ==
    LET kept == SelectSeq(email_list_f, LAMBDA line : ~_can_ignore(line))
        addresses == [k \in DOMAIN kept |-> strip(kept[k])]
    IN  IF Len(addresses) = 0 THEN Raise
        ELSE IF \E k \in DOMAIN addresses :
                    \A j \in DOMAIN addresses[k] : addresses[k][j] # "@"
          THEN Raise
        ELSE Return(addresses)

required_fields ==
    {<<"smtp_server">>, <<"smtp_port">>, <<"sender">>, <<"password">>}

\* The loop of parse_email_settings over the lines left, with the settings
\* dictionary so far.
RECURSIVE parse_email_settings_lines(_, _)
parse_email_settings_lines(lines, settings) ==
    IF lines = <<>> THEN Return(settings)
    ELSE LET line == Head(lines)
             fields == split(strip(line), "\t")
         IN  IF _can_ignore(line)
               THEN parse_email_settings_lines(Tail(lines), settings)
             ELSE IF Len(fields) # 2 THEN Raise
             ELSE IF fields[1] \notin required_fields THEN Raise
             ELSE parse_email_settings_lines(
                      Tail(lines),
                      [k \in (DOMAIN settings) \cup {fields[1]} |->
                          IF k = fields[1] THEN fields[2] ELSE settings[k]])

parse_email_settings(f) ==
    LET r == parse_email_settings_lines(f, <<>>)
    IN  IF r.exception = "None" /\ Cardinality(DOMAIN r.value) # 4
          THEN Raise ELSE r

\* -------------------------------------------------------------- clout/run.py
\* clout.static.MAX_SPOT_BID (10.0 dollars), in cents.
MAX_SPOT_BID == 1000

\* A spot bid argument: None, a float, or a string that float() converts or
\* rejects; amounts are in cents.  A float is a finite amount, nan or inf
\* (special), which float() also converts from the strings 'nan' and 'inf'.
NoSpotBid == [kind |-> "None", numeric |-> FALSE, special |-> "no", cents |-> 0]

SpotBidFloat(cents) ==
    [kind |-> "float", numeric |-> TRUE, special |-> "no", cents |-> cents]

SpotBidStr(numeric, cents) ==
    [kind |-> "str", numeric |-> numeric, special |-> "no", cents |-> cents]

SpotBidSpecial(kind, special) ==
    [kind |-> kind, numeric |-> TRUE, special |-> special, cents |-> 0]

\* float(spot_bid)
float(bid) ==
    IF bid.kind = "str" /\ ~bid.numeric THEN Raise
    ELSE Return([bid EXCEPT !.kind = "float"])

\* bid <= cents and bid > cents for a float: every comparison with nan is
\* False, and inf is greater than every amount.
LessOrEqual(bid, cents) == bid.special = "no" /\ bid.cents <= cents

Greater(bid, cents) ==
    bid.special = "inf" \/ (bid.special = "no" /\ bid.cents > cents)

\* Arguments of run_test_suites that are passed on unchanged.
sc_exe_fp == "starcluster"

sc_config_fp == "sc_config_fp"

user == "root"

\* Variant: the test-suite commands come out in the reverse order.
_build_test_execution_commands_Reversed(suites, template, bid) ==
    LET sc_start_cmd ==
            <<sc_exe_fp, "-c", sc_config_fp, "start">>
            \o (IF template # "None" THEN <<"-c", template>> ELSE <<>>)
            \o (IF bid.kind # "None"
                  THEN <<"-b", <<"%.2f", bid.special, bid.cents>>,
                         "--force-spot-master">>
                  ELSE <<>>)
            \o <<cluster_tag>>
    IN  <<  <<sc_start_cmd>>,
            [k \in DOMAIN suites |->
                <<sc_exe_fp, "-c", sc_config_fp, "sshmaster", "-u", user,
                  cluster_tag, "'", suites[Len(suites) + 1 - k][2], "'">>],
            << <<sc_exe_fp, "-c", sc_config_fp, "terminate", "-c",
                 cluster_tag>> >>  >>

_build_test_execution_commands(suites, template, bid) ==
    LET sc_start_cmd ==
            <<sc_exe_fp, "-c", sc_config_fp, "start">>
            \o (IF template # "None" THEN <<"-c", template>> ELSE <<>>)
            \o (IF bid.kind # "None"
                  THEN <<"-b", <<"%.2f", bid.special, bid.cents>>,
                         "--force-spot-master">>
                  ELSE <<>>)
            \o <<cluster_tag>>
    IN  <<  <<sc_start_cmd>>,
            [k \in DOMAIN suites |->
                <<sc_exe_fp, "-c", sc_config_fp, "sshmaster", "-u", user,
                  cluster_tag, "'", suites[k][2], "'">>],
            << <<sc_exe_fp, "-c", sc_config_fp, "terminate", "-c",
                 cluster_tag>> >>  >>

\* float(timeout) * 60.0 for a timeout given in half minutes
JoinSeconds(t) == t * 30

\* The step of the clock: half a minute, in seconds.
TickSeconds == JoinSeconds(1)

\* ------------------------------------------------------------ initial states
\* Nothing has been run or sent.
NothingExecuted ==
    /\ email_body = <<>>
    /\ attachments = <<>>
    /\ setup_cmds_succeeded = "unset"
    /\ test_suites_cmds_succeeded = "unset"
    /\ teardown_cmds_succeeded = "unset"
    /\ log_f = <<>>
    /\ cmds_succeeded = "True"
    /\ individual_cmds_status = <<>>
    /\ running_process = NoProcess
    /\ running_process_lock = "free"
    /\ timeout_occurred = FALSE
    /\ timeout_occurred_lock = "free"
    /\ c_pc = "idle"
    /\ w_pc = "none"
    /\ w_i = 1
    /\ procs = <<>>
    /\ batches = <<>>
    /\ kills = <<>>
    /\ deadline_expired = FALSE
    /\ finished_at_expiry = 0
    /\ spawn_failed = FALSE
    /\ elapsed = 0
    /\ rewound = {}
    /\ recipients = <<>>
    /\ email_settings = <<>>
    /\ sent = <<>>
    /\ summary = <<>>
    /\ legacy_pc = "idle"
    /\ alarm = FALSE
    /\ legacy_i = 1
    /\ legacy_ret_vals = <<>>
    /\ legacy_cmds_succeeded = "True"
    /\ legacy_individual_cmds_status = <<>>
    /\ legacy_log_f = <<>>

\* No executor has been constructed and nothing has been run or sent.
NothingRun ==
    /\ cmds = <<>>
    /\ stop_on_first_failure = FALSE
    /\ log_individual_cmds = FALSE
    /\ timeout = 0
    /\ NothingExecuted

\* run_test_suites is not involved: its arguments have their defaults.
NoRunArgs ==
    /\ config_f = <<>>
    /\ recipients_f = <<>>
    /\ email_settings_f = <<>>
    /\ cluster_template = "None"
    /\ spot_bid = NoSpotBid
    /\ suppress_spot_bid_check = FALSE

\* _execute_commands_and_build_email is called with lists of commands of any
\* length from one up to the bounds, and with timeouts of half a minute.
Init ==
    /\ \E n \in 1..MaxSetupCmds : setup_cmds = [i \in 1..n |-> Cmd("setup", i)]
    /\ \E n \in 1..MaxSuites :
          /\ test_suites = [i \in 1..n |-> <<Label(i), Cmd("suite", i)>>]
          /\ test_suites_cmds = [i \in 1..n |-> Cmd("suite", i)]
    /\ \E n \in 1..MaxTeardownCmds :
          teardown_cmds = [i \in 1..n |-> Cmd("teardown", i)]
    /\ setup_timeout = 1
    /\ test_suites_timeout = 1
    /\ teardown_timeout = 1
    /\ o_pc = "start"
    /\ r_pc = "none"
    /\ test_suites_status = <<>>
    /\ NoRunArgs
    /\ NothingRun

\* ------------------------------------------------- CommandExecutor.__call__
\* Variant: the timeout flag and the outcome of the previous call are kept.
StartCall_KeepsOutcome(newCmds, new_timeout) ==
    /\ timeout' = new_timeout
    /\ elapsed' = 0
    /\ cmds_succeeded' = cmds_succeeded
    /\ individual_cmds_status' = <<>>
    /\ running_process' = NoProcess
    /\ running_process_lock' = "free"
    /\ timeout_occurred' = timeout_occurred
    /\ timeout_occurred_lock' = "free"
    /\ w_pc' = IF newCmds = <<>> THEN "return" ELSE "loop"
    /\ w_i' = 1
    /\ procs' = <<>>
    /\ kills' = <<>>
    /\ deadline_expired' = FALSE
    /\ finished_at_expiry' = 0
    /\ spawn_failed' = FALSE
    /\ c_pc' = "join"

\* Variant: the result list of the previous call is kept.
StartCall_KeepsResults(newCmds, new_timeout) ==
    /\ timeout' = new_timeout
    /\ elapsed' = 0
    /\ cmds_succeeded' = "True"
    /\ individual_cmds_status' = individual_cmds_status
    /\ running_process' = NoProcess
    /\ running_process_lock' = "free"
    /\ timeout_occurred' = FALSE
    /\ timeout_occurred_lock' = "free"
    /\ w_pc' = IF newCmds = <<>> THEN "return" ELSE "loop"
    /\ w_i' = 1
    /\ procs' = <<>>
    /\ kills' = <<>>
    /\ deadline_expired' = FALSE
    /\ finished_at_expiry' = 0
    /\ spawn_failed' = FALSE
    /\ c_pc' = "join"

\* Lines 86-103 of __call__: reset the per-call state, create the locks,
\* start the worker thread and enter the join bounded by the timeout given.
StartCall(newCmds, new_timeout) ==
    /\ timeout' = new_timeout
    /\ elapsed' = 0
    /\ cmds_succeeded' = "True"
    /\ individual_cmds_status' = <<>>
    /\ running_process' = NoProcess
    /\ running_process_lock' = "free"
    /\ timeout_occurred' = FALSE
    /\ timeout_occurred_lock' = "free"
    /\ w_pc' = IF newCmds = <<>> THEN "return" ELSE "loop"
    /\ w_i' = 1
    /\ procs' = <<>>
    /\ kills' = <<>>
    /\ deadline_expired' = FALSE
    /\ finished_at_expiry' = 0
    /\ spawn_failed' = FALSE
    /\ c_pc' = "join"

\* Time passes while the caller waits in the bounded join.
Tick ==
    /\ c_pc = "join"
    /\ w_pc # "dead"
    /\ elapsed < JoinSeconds(timeout)
    /\ elapsed' = elapsed + TickSeconds
    /\ UNCHANGED <<inputs, orch, config, log_f, cmds_succeeded,
                   individual_cmds_status, running_process,
                   running_process_lock, timeout_occurred,
                   timeout_occurred_lock, c_pc, w_pc, w_i, procs, kills,
                   deadline_expired, finished_at_expiry, spawn_failed>>

\* join(timeout) returns because the worker thread has ended.
C_JoinReturns ==
    /\ c_pc = "join"
    /\ w_pc = "dead"
    /\ c_pc' = "is_alive"
    /\ elapsed' = 0
    /\ UNCHANGED <<inputs, orch, config, log_f, cmds_succeeded,
                   individual_cmds_status, running_process,
                   running_process_lock, timeout_occurred,
                   timeout_occurred_lock, w_pc, w_i, procs, kills,
                   deadline_expired,
                   finished_at_expiry, spawn_failed>>

\* join(timeout) returns because the timeout ran out with the worker alive.
C_JoinTimeout ==
    /\ c_pc = "join"
    /\ w_pc # "dead"
    /\ elapsed >= JoinSeconds(timeout)
    /\ elapsed' = 0
    /\ deadline_expired' = TRUE
    /\ finished_at_expiry' =
          Cardinality({p \in DOMAIN procs : procs[p].status # "running"})
    /\ c_pc' = "is_alive"
    /\ UNCHANGED <<inputs, orch, config, log_f, cmds_succeeded,
                   individual_cmds_status, running_process,
                   running_process_lock, timeout_occurred,
                   timeout_occurred_lock, w_pc, w_i, procs, kills,
                   spawn_failed>>

\* if cmd_runner_thread.is_alive(): ... else fall through to the return.
C_IsAlive ==
    /\ c_pc = "is_alive"
    /\ c_pc' = IF w_pc # "dead" THEN "set_flag" ELSE "returned"
    /\ UNCHANGED <<inputs, orch, config, log_f, cmds_succeeded,
                   individual_cmds_status, running_process,
                   running_process_lock, timeout_occurred,
                   timeout_occurred_lock, w_pc, w_i, procs, kills,
                   deadline_expired,
                   finished_at_expiry, spawn_failed, elapsed>>

\* History: the state of the process the reference names at the moment the
\* flag is set is noted in the process (at_cancel).
AtCancel ==
    [p \in DOMAIN procs |->
        IF p = running_process
          THEN [procs[p] EXCEPT !.at_cancel = procs[p].status]
          ELSE procs[p]]

\* Variant: the caller takes the process lock first and keeps it while it
\* takes the flag lock (the locks are nested in the order opposite to the
\* worker's).
C_SetFlag_ProcessLockFirst ==
    /\ c_pc = "set_flag"
    /\ \/ /\ running_process_lock = "free"
          /\ running_process_lock' = "caller"
          /\ UNCHANGED <<timeout_occurred, c_pc, procs>>
       \/ /\ running_process_lock = "caller"
          /\ timeout_occurred_lock = "free"
          /\ timeout_occurred' = TRUE
          /\ procs' = AtCancel
          /\ running_process_lock' = "free"
          /\ c_pc' = "kill"
    /\ UNCHANGED <<inputs, orch, config, log_f, cmds_succeeded,
                   individual_cmds_status, running_process,
                   timeout_occurred_lock, w_pc, w_i,
                   kills, deadline_expired,
                   finished_at_expiry, spawn_failed, elapsed>>

\* with self._timeout_occurred_lock: self._timeout_occurred = True
C_SetFlag ==
    /\ c_pc = "set_flag"
    /\ timeout_occurred_lock = "free"
    /\ timeout_occurred' = TRUE
    /\ procs' = AtCancel
    /\ c_pc' = "kill"
    /\ UNCHANGED <<inputs, orch, config, log_f, cmds_succeeded,
                   individual_cmds_status, running_process,
                   running_process_lock, timeout_occurred_lock, w_pc, w_i,
                   kills, deadline_expired,
                   finished_at_expiry, spawn_failed, elapsed>>

\* killpg(pid, SIGTERM) on the process the reference names.  A running
\* process group is terminated; a process that has exited but has not been
\* waited on still owns its pid and the signal has no effect.  Once the
\* worker has waited on the process the pid is free: killpg raises OSError
\* (no such process) or, if the pid has been reused, signals an unrelated
\* process group.
killpg(p) ==
    /\ kills' = Append(kills, [target |-> p, status |-> procs[p].status])
    /\ \/ /\ procs[p].status = "running"
          /\ procs' = [procs EXCEPT ![p] =
                          [@ EXCEPT !.status = "exited",
                                    !.returncode = -SIGTERM,
                                    !.stdout = <<procs[p].cmd, "partial">>,
                                    !.stderr = <<procs[p].cmd, "partial">>]]
          /\ c_pc' = "final_join"
       \/ /\ procs[p].status = "exited"
          /\ c_pc' = "final_join"
          /\ UNCHANGED procs
       \/ /\ procs[p].status = "reaped"
          /\ c_pc' \in {"raised", "final_join"}
          /\ UNCHANGED procs

\* with self._running_process_lock:
\*     if self._running_process is not None: killpg(...)
C_Kill ==
    /\ c_pc = "kill"
    /\ running_process_lock = "free"
    /\ IF running_process # NoProcess
         THEN killpg(running_process)
         ELSE /\ c_pc' = "final_join"
              /\ UNCHANGED <<procs, kills>>
    /\ UNCHANGED <<inputs, orch, config, log_f, cmds_succeeded,
                   individual_cmds_status, running_process,
                   running_process_lock, timeout_occurred,
                   timeout_occurred_lock, w_pc, w_i, deadline_expired,
                   finished_at_expiry, spawn_failed, elapsed>>

\* Lines 108-115 carried out a second time, right after the first: the flag
\* is set again and the process the reference names, if any, is signalled
\* again.
C_CancelAgain ==
    /\ c_pc = "final_join"
    /\ Len(kills) < 2
    /\ timeout_occurred_lock = "free"
    /\ running_process_lock = "free"
    /\ timeout_occurred' = TRUE
    /\ IF running_process # NoProcess
         THEN killpg(running_process)
         ELSE /\ c_pc' = "final_join"
              /\ UNCHANGED <<procs, kills>>
    /\ UNCHANGED <<inputs, orch, config, log_f, cmds_succeeded,
                   individual_cmds_status, running_process,
                   running_process_lock, timeout_occurred_lock, w_pc, w_i,
                   deadline_expired, finished_at_expiry, spawn_failed,
                   elapsed>>

\* Variant: the call returns without the final join.
C_FinalJoin_NoWait ==
    /\ c_pc = "final_join"
    /\ c_pc' = "returned"
    /\ UNCHANGED <<inputs, orch, config, log_f, cmds_succeeded,
                   individual_cmds_status, running_process,
                   running_process_lock, timeout_occurred,
                   timeout_occurred_lock, w_pc, w_i, procs, kills,
                   deadline_expired, finished_at_expiry, spawn_failed, elapsed>>

\* cmd_runner_thread.join() followed by the return statement.
C_FinalJoin ==
    /\ c_pc = "final_join"
    /\ w_pc = "dead"
    /\ c_pc' = "returned"
    /\ UNCHANGED <<inputs, orch, config, log_f, cmds_succeeded,
                   individual_cmds_status, running_process,
                   running_process_lock, timeout_occurred,
                   timeout_occurred_lock, w_pc, w_i, procs, kills,
                   deadline_expired,
                   finished_at_expiry, spawn_failed, elapsed>>

\* ------------------------------------------- CommandExecutor._run_commands
\* Variant: the flag is tested but the lock is not kept for the spawn.
W_Check_LockNotKept ==
    /\ w_pc = "loop"
    /\ timeout_occurred_lock = "free"
    /\ IF timeout_occurred
         THEN /\ cmds_succeeded' = "None"
              /\ w_pc' = "return"
         ELSE /\ w_pc' = "lock_proc"
              /\ UNCHANGED cmds_succeeded
    /\ UNCHANGED <<inputs, orch, config, log_f, individual_cmds_status,
                   running_process, running_process_lock, timeout_occurred,
                   timeout_occurred_lock, c_pc, w_i, procs, kills,
                   deadline_expired,
                   finished_at_expiry, spawn_failed, elapsed>>

\* with self._timeout_occurred_lock: if self._timeout_occurred: ... break
\* Otherwise the worker keeps the lock and goes on to take the process lock.
W_Check ==
    /\ w_pc = "loop"
    /\ timeout_occurred_lock = "free"
    /\ IF timeout_occurred
         THEN /\ cmds_succeeded' = "None"
              /\ w_pc' = "return"
              /\ UNCHANGED timeout_occurred_lock
         ELSE /\ timeout_occurred_lock' = "worker"
              /\ w_pc' = "lock_proc"
              /\ UNCHANGED cmds_succeeded
    /\ UNCHANGED <<inputs, orch, config, log_f, individual_cmds_status,
                   running_process, running_process_lock, timeout_occurred,
                   c_pc, w_i, procs, kills, deadline_expired,
                   finished_at_expiry, spawn_failed, elapsed>>

\* with self._running_process_lock:
W_LockProc ==
    /\ w_pc = "lock_proc"
    /\ running_process_lock = "free"
    /\ running_process_lock' = "worker"
    /\ w_pc' = "popen"
    /\ UNCHANGED <<inputs, orch, config, log_f, cmds_succeeded,
                   individual_cmds_status, running_process, timeout_occurred,
                   timeout_occurred_lock, c_pc, w_i, procs, kills,
                   deadline_expired,
                   finished_at_expiry, spawn_failed, elapsed>>

\* Variant: the with-blocks also enclose the wait for the child.
W_Popen_KeepsLocks ==
    /\ w_pc = "popen"
    /\ procs' = Append(procs, [cmd |-> cmds[w_i], status |-> "running",
                               returncode |-> 0,
                               stdout |-> <<>>, stderr |-> <<>>,
                               at_cancel |-> "none"])
    /\ running_process' = Len(procs) + 1
    /\ w_pc' = "communicate"
    /\ UNCHANGED <<inputs, orch, config, log_f, cmds_succeeded,
                   individual_cmds_status, running_process_lock,
                   timeout_occurred, timeout_occurred_lock, c_pc, w_i,
                   kills, deadline_expired, finished_at_expiry, spawn_failed,
                   elapsed>>

\* proc = Popen(cmd, ...); self._running_process = proc; both with-blocks end.
W_Popen ==
    /\ w_pc = "popen"
    /\ procs' = Append(procs, [cmd |-> cmds[w_i], status |-> "running",
                               returncode |-> 0,
                               stdout |-> <<>>, stderr |-> <<>>,
                               at_cancel |-> "none"])
    /\ running_process' = Len(procs) + 1
    /\ running_process_lock' = "free"
    /\ timeout_occurred_lock' = "free"
    /\ w_pc' = "communicate"
    /\ UNCHANGED <<inputs, orch, config, log_f, cmds_succeeded,
                   individual_cmds_status, timeout_occurred, c_pc, w_i,
                   kills, deadline_expired,
                   finished_at_expiry, spawn_failed, elapsed>>

\* Popen raises (the shell cannot be spawned): the exception leaves both
\* with-blocks, which releases the locks, and, caught by nothing in
\* _run_commands, ends the worker thread; nothing else is changed.
W_PopenFails ==
    /\ w_pc = "popen"
    /\ spawn_failed' = TRUE
    /\ running_process_lock' = "free"
    /\ timeout_occurred_lock' = "free"
    /\ w_pc' = "dead"
    /\ UNCHANGED <<inputs, orch, config, log_f, cmds_succeeded,
                   individual_cmds_status, running_process, timeout_occurred,
                   c_pc, w_i, procs, kills, deadline_expired,
                   finished_at_expiry, elapsed>>

\* A child process ends on its own with some exit code.  Nothing forces a
\* command to end: a hung command is one for which this step never happens.
P_Exit ==
    /\ \E p \in DOMAIN procs, rc \in ExitCodes :
          /\ procs[p].status = "running"
          /\ procs' = [procs EXCEPT ![p] =
                          [@ EXCEPT !.status = "exited",
                                    !.returncode = rc,
                                    !.stdout = <<procs[p].cmd, "out">>,
                                    !.stderr = <<procs[p].cmd, "err">>]]
    /\ UNCHANGED <<inputs, orch, config, log_f, cmds_succeeded,
                   individual_cmds_status, running_process,
                   running_process_lock, timeout_occurred,
                   timeout_occurred_lock, c_pc, w_pc, w_i, kills,
                   deadline_expired,
                   finished_at_expiry, spawn_failed, elapsed>>

\* Variant: the worker goes on without waiting for the child to end.
W_Communicate_NoWait ==
    /\ w_pc = "communicate"
    /\ procs' = [procs EXCEPT ![w_i].status =
                    IF @ = "exited" THEN "reaped" ELSE @]
    /\ w_pc' = "clear"
    /\ UNCHANGED <<inputs, orch, config, log_f, cmds_succeeded,
                   individual_cmds_status, running_process,
                   running_process_lock, timeout_occurred,
                   timeout_occurred_lock, c_pc, w_i, kills, deadline_expired,
                   finished_at_expiry, spawn_failed, elapsed>>

\* stdout, stderr = proc.communicate(); ret_val = proc.returncode
\* Blocks until the child has ended, and waits on (reaps) it.
W_Communicate ==
    /\ w_pc = "communicate"
    /\ procs[w_i].status = "exited"
    /\ procs' = [procs EXCEPT ![w_i].status = "reaped"]
    /\ w_pc' = "clear"
    /\ UNCHANGED <<inputs, orch, config, log_f, cmds_succeeded,
                   individual_cmds_status, running_process,
                   running_process_lock, timeout_occurred,
                   timeout_occurred_lock, c_pc, w_i, kills, deadline_expired,
                   finished_at_expiry, spawn_failed, elapsed>>

\* with self._running_process_lock: self._running_process = None
W_Clear ==
    /\ w_pc = "clear"
    /\ running_process_lock = "free"
    /\ running_process' = NoProcess
    /\ w_pc' = "log"
    /\ UNCHANGED <<inputs, orch, config, log_f, cmds_succeeded,
                   individual_cmds_status, running_process_lock,
                   timeout_occurred, timeout_occurred_lock, c_pc, w_i, procs,
                   kills, deadline_expired,
                   finished_at_expiry, spawn_failed, elapsed>>

\* Variant: the output of a command is dropped once a timeout was signalled.
W_Log_DropOnTimeout ==
    /\ w_pc = "log"
    /\ LET p == procs[w_i]
           t == Transcript(cmds[w_i], p.stdout, p.stderr)
       IN  /\ log_f' = IF timeout_occurred THEN log_f ELSE Append(log_f, t)
           /\ individual_cmds_status' =
                 IF log_individual_cmds /\ ~timeout_occurred
                   THEN Append(individual_cmds_status, <<<<t>>, p.returncode>>)
                   ELSE individual_cmds_status
    /\ w_pc' = "final"
    /\ UNCHANGED <<inputs, orch, config, cmds_succeeded, running_process,
                   running_process_lock, timeout_occurred,
                   timeout_occurred_lock, c_pc, w_i, procs, kills,
                   deadline_expired,
                   finished_at_expiry, spawn_failed, elapsed>>

\* Variant: a command ended by a signal gets no entry in the result list.
W_Log_NoResultWhenKilled ==
    /\ w_pc = "log"
    /\ LET p == procs[w_i]
           t == Transcript(cmds[w_i], p.stdout, p.stderr)
       IN  /\ log_f' = Append(log_f, t)
           /\ individual_cmds_status' =
                 IF log_individual_cmds /\ p.returncode >= 0
                   THEN Append(individual_cmds_status, <<<<t>>, p.returncode>>)
                   ELSE individual_cmds_status
    /\ w_pc' = "final"
    /\ UNCHANGED <<inputs, orch, config, cmds_succeeded, running_process,
                   running_process_lock, timeout_occurred,
                   timeout_occurred_lock, c_pc, w_i, procs, kills,
                   deadline_expired, finished_at_expiry, spawn_failed, elapsed>>

\* Variant: the newest result is put at the front of the result list.
W_Log_PrependsResult ==
    /\ w_pc = "log"
    /\ LET p == procs[w_i]
           t == Transcript(cmds[w_i], p.stdout, p.stderr)
       IN  /\ log_f' = Append(log_f, t)
           /\ individual_cmds_status' =
                 IF log_individual_cmds
                   THEN <<<<<<t>>, p.returncode>>>> \o individual_cmds_status
                   ELSE individual_cmds_status
    /\ w_pc' = "final"
    /\ UNCHANGED <<inputs, orch, config, cmds_succeeded, running_process,
                   running_process_lock, timeout_occurred,
                   timeout_occurred_lock, c_pc, w_i, procs, kills,
                   deadline_expired, finished_at_expiry, spawn_failed, elapsed>>

\* Variant: the per-command copy of the transcript goes to the aggregate log.
W_Log_WritesTwice ==
    /\ w_pc = "log"
    /\ LET p == procs[w_i]
           t == Transcript(cmds[w_i], p.stdout, p.stderr)
       IN  /\ log_f' = IF log_individual_cmds
                         THEN log_f \o <<t, t>> ELSE Append(log_f, t)
           /\ individual_cmds_status' =
                 IF log_individual_cmds
                   THEN Append(individual_cmds_status, <<<<>>, p.returncode>>)
                   ELSE individual_cmds_status
    /\ w_pc' = "final"
    /\ UNCHANGED <<inputs, orch, config, cmds_succeeded, running_process,
                   running_process_lock, timeout_occurred,
                   timeout_occurred_lock, c_pc, w_i, procs, kills,
                   deadline_expired, finished_at_expiry, spawn_failed, elapsed>>

\* self.log_f.write(...) and, if log_individual_cmds, a fresh TemporaryFile
\* with the same transcript appended to _individual_cmds_status.
W_Log ==
    /\ w_pc = "log"
    /\ LET p == procs[w_i]
           t == Transcript(cmds[w_i], p.stdout, p.stderr)
       IN  /\ log_f' = Append(log_f, t)
           /\ individual_cmds_status' =
                 IF log_individual_cmds
                   THEN Append(individual_cmds_status, <<<<t>>, p.returncode>>)
                   ELSE individual_cmds_status
    /\ w_pc' = "final"
    /\ UNCHANGED <<inputs, orch, config, cmds_succeeded, running_process,
                   running_process_lock, timeout_occurred,
                   timeout_occurred_lock, c_pc, w_i, procs, kills,
                   deadline_expired,
                   finished_at_expiry, spawn_failed, elapsed>>

\* Variant: the outcome follows the last command only.
Outcome_LastCommandOnly(ret_val) ==
    IF timeout_occurred THEN "None"
    ELSE IF ret_val # 0 THEN "False"
    ELSE "True"

\* The outcome after a command with return value ret_val (lines 161-164).
Outcome(ret_val) ==
    IF timeout_occurred THEN "None"
    ELSE IF ret_val # 0 THEN "False"
    ELSE cmds_succeeded

\* Variant: a failure never ends the batch.
Breaks_OnTimeoutOnly(succeeded) == timeout_occurred

\* Variant: any failure ends the batch, whatever stop_on_first_failure is.
Breaks_OnAnyFailure(succeeded) == timeout_occurred \/ succeeded # "True"

\* The break condition of lines 166-168, on the updated outcome.
Breaks(succeeded) ==
    timeout_occurred \/ (succeeded # "True" /\ stop_on_first_failure)

\* with self._timeout_occurred_lock: update the outcome, break or go on.
W_Final ==
    /\ w_pc = "final"
    /\ timeout_occurred_lock = "free"
    /\ LET succeeded == Outcome(procs[w_i].returncode)
       IN  /\ cmds_succeeded' = succeeded
           /\ IF Breaks(succeeded) \/ w_i = Len(cmds)
                THEN /\ w_pc' = "return"
                     /\ UNCHANGED w_i
                ELSE /\ w_pc' = "loop"
                     /\ w_i' = w_i + 1
    /\ UNCHANGED <<inputs, orch, config, log_f, individual_cmds_status,
                   running_process, running_process_lock, timeout_occurred,
                   timeout_occurred_lock, c_pc, procs, kills,
                   deadline_expired,
                   finished_at_expiry, spawn_failed, elapsed>>

\* _run_commands returns and the worker thread ends.
W_Return ==
    /\ w_pc = "return"
    /\ w_pc' = "dead"
    /\ UNCHANGED <<inputs, orch, config, log_f, cmds_succeeded,
                   individual_cmds_status, running_process,
                   running_process_lock, timeout_occurred,
                   timeout_occurred_lock, c_pc, w_i, procs, kills,
                   deadline_expired,
                   finished_at_expiry, spawn_failed, elapsed>>

\* --------------------------------------- _execute_commands_and_build_email
\* Variant: a failed Setup is not told apart from a successful one.
SetupVerdict_TimeoutOnly(succeeded) ==
    IF succeeded = "None" THEN "timeout" ELSE "run"

\* The verdict the orchestrator draws from the Setup outcome (lines 204-211).
SetupVerdict(succeeded) ==
    IF succeeded = "None" THEN "timeout"
    ELSE IF succeeded # "True" THEN "failed"
    ELSE "run"

\* Variant: the warning is only added when Teardown timed out.
TeardownMessage_TimeoutOnly(succeeded) ==
    IF succeeded = "None"
      THEN <<Msg("teardown_timeout", <<>>),
             Msg("cluster_termination_msg", <<cluster_tag>>)>>
    ELSE IF succeeded # "True"
      THEN <<Msg("teardown_failed", <<>>)>>
    ELSE <<>>

\* The message a Teardown outcome adds to the report (lines 250-267).
TeardownMessage(succeeded) ==
    IF succeeded = "None"
      THEN <<Msg("teardown_timeout", <<>>),
             Msg("cluster_termination_msg", <<cluster_tag>>)>>
    ELSE IF succeeded # "True"
      THEN <<Msg("teardown_failed", <<>>),
             Msg("cluster_termination_msg", <<cluster_tag>>)>>
    ELSE <<>>

\* Lines 191-202: the aggregate log is the first attachment; the executor is
\* constructed for the setup commands and called.
O_Setup ==
    /\ o_pc = "start"
    /\ email_body' = <<>>
    /\ attachments' = <<[name |-> <<<<"complete_log", 0>>, ".txt">>,
                         file |-> <<"log_f">>]>>
    /\ cmds' = setup_cmds
    /\ stop_on_first_failure' = TRUE
    /\ log_individual_cmds' = FALSE
    /\ StartCall(setup_cmds, setup_timeout)
    /\ batches' = Append(batches, "setup")
    /\ o_pc' = "setup"
    /\ rewound' = {}
    /\ UNCHANGED <<inputs, log_f, setup_cmds_succeeded,
                   test_suites_cmds_succeeded, teardown_cmds_succeeded>>

\* Variant: Teardown is given the timeout of Run.
StartTeardown_RunTimeout ==
    /\ cmds' = teardown_cmds
    /\ stop_on_first_failure' = FALSE
    /\ log_individual_cmds' = FALSE
    /\ StartCall(teardown_cmds, test_suites_timeout)
    /\ batches' = Append(batches, "teardown")
    /\ o_pc' = "teardown"

\* Variant: the reused executor keeps the flags of the call before.
StartTeardown_KeepsFlags ==
    /\ cmds' = teardown_cmds
    /\ UNCHANGED <<stop_on_first_failure, log_individual_cmds>>
    /\ StartCall(teardown_cmds, teardown_timeout)
    /\ batches' = Append(batches, "teardown")
    /\ o_pc' = "teardown"

\* Lines 255-258: the executor is reused for the teardown commands.
StartTeardown ==
    /\ cmds' = teardown_cmds
    /\ stop_on_first_failure' = FALSE
    /\ log_individual_cmds' = FALSE
    /\ StartCall(teardown_cmds, teardown_timeout)
    /\ batches' = Append(batches, "teardown")
    /\ o_pc' = "teardown"

\* Lines 218-222: the executor is reused for the test-suite commands.
StartRun ==
    /\ cmds' = test_suites_cmds
    /\ stop_on_first_failure' = FALSE
    /\ log_individual_cmds' = TRUE
    /\ StartCall(test_suites_cmds, test_suites_timeout)
    /\ batches' = Append(batches, "run")
    /\ o_pc' = "run"

\* Variant: the function returns early when Setup failed or timed out.
O_AfterSetup_EarlyReturn ==
    /\ o_pc = "setup"
    /\ c_pc = "returned"
    /\ setup_cmds_succeeded' = cmds_succeeded
    /\ \/ /\ SetupVerdict(cmds_succeeded) = "timeout"
          /\ email_body' = Append(email_body, Msg("setup_timeout", <<>>))
          /\ o_pc' = "done"
          /\ UNCHANGED <<config, cmds_succeeded, individual_cmds_status,
                         running_process, running_process_lock,
                         timeout_occurred, timeout_occurred_lock, c_pc, w_pc,
                         w_i, procs, batches, kills, deadline_expired,
                   finished_at_expiry, spawn_failed, elapsed>>
       \/ /\ SetupVerdict(cmds_succeeded) = "failed"
          /\ email_body' = Append(email_body, Msg("setup_failed", <<>>))
          /\ o_pc' = "done"
          /\ UNCHANGED <<config, cmds_succeeded, individual_cmds_status,
                         running_process, running_process_lock,
                         timeout_occurred, timeout_occurred_lock, c_pc, w_pc,
                         w_i, procs, batches, kills, deadline_expired,
                   finished_at_expiry, spawn_failed, elapsed>>
       \/ /\ SetupVerdict(cmds_succeeded) = "run"
          /\ UNCHANGED email_body
          /\ StartRun
    /\ UNCHANGED <<inputs, log_f, attachments, test_suites_cmds_succeeded,
                   teardown_cmds_succeeded, rewound>>

\* The Setup call has returned (lines 202-222, 249-258).
O_AfterSetup ==
    /\ o_pc = "setup"
    /\ c_pc = "returned"
    /\ setup_cmds_succeeded' = cmds_succeeded
    /\ \/ /\ SetupVerdict(cmds_succeeded) = "timeout"
          /\ email_body' = Append(email_body, Msg("setup_timeout", <<>>))
          /\ StartTeardown
       \/ /\ SetupVerdict(cmds_succeeded) = "failed"
          /\ email_body' = Append(email_body, Msg("setup_failed", <<>>))
          /\ StartTeardown
       \/ /\ SetupVerdict(cmds_succeeded) = "run"
          /\ UNCHANGED email_body
          /\ StartRun
    /\ UNCHANGED <<inputs, log_f, attachments, test_suites_cmds_succeeded,
                   teardown_cmds_succeeded, rewound>>

\* Variant: the suites that were not tested are not named.
RunReport_NoUntested(succeeded, status) ==
    LET n == Min(Len(test_suites), Len(status))
        label_to_ret_val == [k \in 1..n |-> <<test_suites[k][1], status[k][2]>>]
        timeout_test_suite == PyIndex(test_suites, Len(status) - 1)[1]
    IN  format_email_summary(label_to_ret_val)
        \o (IF succeeded = "None"
              THEN <<Msg("test_suites_timeout", <<timeout_test_suite>>)>>
              ELSE <<>>)

\* Variant: the notice of the timeout comes before the per-suite summary.
RunReport_NoticeFirst(succeeded, status) ==
    LET n == Min(Len(test_suites), Len(status))
        label_to_ret_val == [k \in 1..n |-> <<test_suites[k][1], status[k][2]>>]
        timeout_test_suite == PyIndex(test_suites, Len(status) - 1)[1]
        rest == PyFrom(test_suites, Len(status))
        untested_suites == [k \in 1..Len(rest) |-> rest[k][1]]
    IN  (IF succeeded = "None"
           THEN <<Msg("test_suites_timeout", <<timeout_test_suite>>)>>
                \o (IF untested_suites # <<>>
                      THEN <<Msg("not_tested", untested_suites)>>
                      ELSE <<>>)
           ELSE <<>>)
        \o format_email_summary(label_to_ret_val)

\* The part of the report and the attachments built from the Run results
\* (lines 224-247).
RunReport(succeeded, status) ==
    LET n == Min(Len(test_suites), Len(status))
        label_to_ret_val == [k \in 1..n |-> <<test_suites[k][1], status[k][2]>>]
        timeout_test_suite == PyIndex(test_suites, Len(status) - 1)[1]
        rest == PyFrom(test_suites, Len(status))
        untested_suites == [k \in 1..Len(rest) |-> rest[k][1]]
    IN  format_email_summary(label_to_ret_val)
        \o (IF succeeded = "None"
              THEN <<Msg("test_suites_timeout", <<timeout_test_suite>>)>>
                   \o (IF untested_suites # <<>>
                         THEN <<Msg("not_tested", untested_suites)>>
                         ELSE <<>>)
              ELSE <<>>)

\* Variant: only the suites that failed get their log attached.
RunAttachments_FailedOnly(status) ==
    LET n == Min(Len(test_suites), Len(status))
        failed == SelectSeq([k \in 1..n |-> k], LAMBDA k : status[k][2] # 0)
    IN  [j \in 1..Len(failed) |->
            [name |-> <<test_suites[failed[j]][1], "_results.txt">>,
             file |-> status[failed[j]][1]]]

RunAttachments(status) ==
    [k \in 1..Min(Len(test_suites), Len(status)) |->
        [name |-> <<test_suites[k][1], "_results.txt">>,
         file |-> status[k][1]]]

\* Variant: Teardown writes to a new, empty log file.
O_AfterRun_NewLog ==
    /\ o_pc = "run"
    /\ c_pc = "returned"
    /\ test_suites_cmds_succeeded' = cmds_succeeded
    /\ email_body' = email_body
                       \o RunReport(cmds_succeeded, individual_cmds_status)
    /\ attachments' = attachments \o RunAttachments(individual_cmds_status)
    /\ StartTeardown
    /\ log_f' = <<>>
    /\ UNCHANGED <<inputs, setup_cmds_succeeded, teardown_cmds_succeeded,
                   rewound>>

\* The Run call has returned (lines 221-258).
O_AfterRun ==
    /\ o_pc = "run"
    /\ c_pc = "returned"
    /\ test_suites_cmds_succeeded' = cmds_succeeded
    /\ email_body' = email_body
                       \o RunReport(cmds_succeeded, individual_cmds_status)
    /\ attachments' = attachments \o RunAttachments(individual_cmds_status)
    /\ StartTeardown
    /\ UNCHANGED <<inputs, log_f, setup_cmds_succeeded,
                   teardown_cmds_succeeded, rewound>>

\* Variant: the teardown message replaces the report instead of extending it.
O_AfterTeardown_Overwrites ==
    /\ o_pc = "teardown"
    /\ c_pc = "returned"
    /\ teardown_cmds_succeeded' = cmds_succeeded
    /\ email_body' = IF TeardownMessage(cmds_succeeded) # <<>>
                       THEN TeardownMessage(cmds_succeeded) ELSE email_body
    /\ rewound' = DOMAIN attachments
    /\ o_pc' = "done"
    /\ UNCHANGED <<inputs, config, log_f, attachments, setup_cmds_succeeded,
                   test_suites_cmds_succeeded, cmds_succeeded,
                   individual_cmds_status, running_process,
                   running_process_lock, timeout_occurred,
                   timeout_occurred_lock, c_pc, w_pc, w_i, procs, batches,
                   kills, deadline_expired, finished_at_expiry, spawn_failed, elapsed>>

\* Variant: only the aggregate log is rewound.
O_AfterTeardown_RewindsLogOnly ==
    /\ o_pc = "teardown"
    /\ c_pc = "returned"
    /\ teardown_cmds_succeeded' = cmds_succeeded
    /\ email_body' = email_body \o TeardownMessage(cmds_succeeded)
    /\ rewound' = {1}
    /\ o_pc' = "done"
    /\ UNCHANGED <<inputs, config, log_f, attachments, setup_cmds_succeeded,
                   test_suites_cmds_succeeded, cmds_succeeded,
                   individual_cmds_status, running_process,
                   running_process_lock, timeout_occurred,
                   timeout_occurred_lock, c_pc, w_pc, w_i, procs, batches,
                   kills, deadline_expired, finished_at_expiry, spawn_failed,
                   elapsed>>

\* The Teardown call has returned (lines 258-275): the teardown message is
\* added and every attachment is rewound (seek(0, 0)) before the return.
O_AfterTeardown ==
    /\ o_pc = "teardown"
    /\ c_pc = "returned"
    /\ teardown_cmds_succeeded' = cmds_succeeded
    /\ email_body' = email_body \o TeardownMessage(cmds_succeeded)
    /\ rewound' = DOMAIN attachments
    /\ o_pc' = "done"
    /\ UNCHANGED <<inputs, config, log_f, attachments, setup_cmds_succeeded,
                   test_suites_cmds_succeeded, cmds_succeeded,
                   individual_cmds_status, running_process,
                   running_process_lock, timeout_occurred,
                   timeout_occurred_lock, c_pc, w_pc, w_i, procs, batches,
                   kills, deadline_expired,
                   finished_at_expiry, spawn_failed, elapsed>>

\* ----------------------------------------------------------- run_test_suites
\* Variant: a timeout of zero is let through.
R_CheckTimeouts_AcceptsZero ==
    /\ r_pc = "start"
    /\ r_pc' = IF \/ setup_timeout < 0
                  \/ test_suites_timeout < 0
                  \/ teardown_timeout < 0
                 THEN "ValueError" ELSE "spot_bid"
    /\ UNCHANGED <<run_args, recipients, email_settings, sent, test_suites,
                   setup_cmds, test_suites_cmds, teardown_cmds,
                   test_suites_status, summary, legacy, orch,
                   config, executor>>

\* Lines 75-76: the three timeouts must be greater than zero.
R_CheckTimeouts ==
    /\ r_pc = "start"
    /\ r_pc' = IF \/ setup_timeout <= 0
                  \/ test_suites_timeout <= 0
                  \/ teardown_timeout <= 0
                 THEN "ValueError" ELSE "spot_bid"
    /\ UNCHANGED <<run_args, recipients, email_settings, sent, test_suites,
                   setup_cmds, test_suites_cmds, teardown_cmds,
                   test_suites_status, summary, legacy, orch,
                   config, executor>>

\* Variant: a bid of zero is let through.
R_CheckSpotBid_AcceptsZero ==
    /\ r_pc = "spot_bid"
    /\ IF spot_bid.kind = "None"
         THEN /\ r_pc' = "parse_config"
              /\ UNCHANGED spot_bid
       ELSE IF float(spot_bid).exception # "None"
         THEN /\ r_pc' = "ValueError"
              /\ UNCHANGED spot_bid
       ELSE LET bid == float(spot_bid).value
            IN  /\ spot_bid' = bid
                /\ r_pc' = IF LessOrEqual(bid, -1) THEN "ValueError"
                           ELSE IF /\ ~suppress_spot_bid_check
                                   /\ Greater(bid, MAX_SPOT_BID)
                             THEN "ValueError"
                           ELSE "parse_config"
    /\ UNCHANGED <<config_f, recipients_f, email_settings_f,
                   cluster_template, suppress_spot_bid_check, setup_timeout,
                   test_suites_timeout, teardown_timeout, recipients,
                   email_settings, sent, test_suites, setup_cmds,
                   test_suites_cmds, teardown_cmds, test_suites_status,
                   summary, legacy, orch,
                   config, executor>>

\* Lines 78-93: a spot bid, if given, is converted to a float and must be
\* greater than zero and, unless the check is suppressed, not greater than
\* MAX_SPOT_BID.
R_CheckSpotBid ==
    /\ r_pc = "spot_bid"
    /\ IF spot_bid.kind = "None"
         THEN /\ r_pc' = "parse_config"
              /\ UNCHANGED spot_bid
       ELSE IF float(spot_bid).exception # "None"
         THEN /\ r_pc' = "ValueError"
              /\ UNCHANGED spot_bid
       ELSE LET bid == float(spot_bid).value
            IN  /\ spot_bid' = bid
                /\ r_pc' = IF LessOrEqual(bid, 0) THEN "ValueError"
                           ELSE IF /\ ~suppress_spot_bid_check
                                   /\ Greater(bid, MAX_SPOT_BID)
                             THEN "ValueError"
                           ELSE "parse_config"
    /\ UNCHANGED <<config_f, recipients_f, email_settings_f,
                   cluster_template, suppress_spot_bid_check, setup_timeout,
                   test_suites_timeout, teardown_timeout, recipients,
                   email_settings, sent, test_suites, setup_cmds,
                   test_suites_cmds, teardown_cmds, test_suites_status,
                   summary, legacy, orch,
                   config, executor>>

\* Line 97: test_suites = parse_config_file(config_f)
R_ParseConfig ==
    /\ r_pc = "parse_config"
    /\ LET r == parse_config_file(config_f)
       IN  IF r.exception # "None"
             THEN /\ r_pc' = "ValueError"
                  /\ UNCHANGED test_suites
             ELSE /\ test_suites' = r.value
                  /\ r_pc' = "parse_recipients"
    /\ UNCHANGED <<run_args, recipients, email_settings, sent, setup_cmds,
                   test_suites_cmds, teardown_cmds, test_suites_status,
                   summary, legacy, orch,
                   config, executor>>

\* Line 98: recipients = parse_email_list(recipients_f)
R_ParseEmailList ==
    /\ r_pc = "parse_recipients"
    /\ LET r == parse_email_list(recipients_f)
       IN  IF r.exception # "None"
             THEN /\ r_pc' = "ValueError"
                  /\ UNCHANGED recipients
             ELSE /\ recipients' = r.value
                  /\ r_pc' = "parse_settings"
    /\ UNCHANGED <<run_args, email_settings, sent, test_suites, setup_cmds,
                   test_suites_cmds, teardown_cmds, test_suites_status,
                   summary, legacy, orch,
                   config, executor>>

\* Line 99: email_settings = parse_email_settings(email_settings_f)
R_ParseEmailSettings ==
    /\ r_pc = "parse_settings"
    /\ LET r == parse_email_settings(email_settings_f)
       IN  IF r.exception # "None"
             THEN /\ r_pc' = "ValueError"
                  /\ UNCHANGED email_settings
             ELSE /\ email_settings' = r.value
                  /\ r_pc' = "build"
    /\ UNCHANGED <<run_args, recipients, sent, test_suites, setup_cmds,
                   test_suites_cmds, teardown_cmds, test_suites_status,
                   summary, legacy, orch,
                   config, executor>>

\* Lines 103-112: the commands are built and
\* _execute_commands_and_build_email is called with them.
R_Build ==
    /\ r_pc = "build"
    /\ LET built == _build_test_execution_commands(test_suites,
                                                   cluster_template, spot_bid)
       IN  /\ setup_cmds' = built[1]
           /\ test_suites_cmds' = built[2]
           /\ teardown_cmds' = built[3]
    /\ o_pc' = "start"
    /\ r_pc' = "execute"
    /\ UNCHANGED <<run_args, recipients, email_settings, sent, test_suites,
                   test_suites_status, summary, legacy, email_body,
                   attachments,
                   setup_cmds_succeeded, test_suites_cmds_succeeded,
                   teardown_cmds_succeeded, batches, rewound, config,
                   executor>>

\* What attachment_f.read() gives for the k-th attachment: the content from
\* the file position on, which is the beginning only for a rewound file.
Payload(k) ==
    IF k \notin rewound THEN <<>>
    ELSE IF k = 1 THEN log_f
    ELSE attachments[k].file

\* Lines 116-119: the report and the attachments are sent.
R_SendEmail ==
    /\ r_pc = "execute"
    /\ o_pc = "done"
    /\ sent' = Append(sent,
                  [host |-> email_settings[<<"smtp_server">>],
                   port |-> email_settings[<<"smtp_port">>],
                   sender |-> email_settings[<<"sender">>],
                   password |-> email_settings[<<"password">>],
                   recipients |-> recipients,
                   body |-> email_body,
                   attachments |->
                       [k \in DOMAIN attachments |->
                           [name |-> attachments[k].name,
                            payload |-> Payload(k)]]])
    /\ r_pc' = "done"
    /\ UNCHANGED <<run_args, recipients, email_settings, test_suites,
                   setup_cmds, test_suites_cmds, teardown_cmds,
                   test_suites_status, summary, legacy, orch,
                   config, executor>>

\* ------------------------------------------------------ format_email_summary
\* A direct call of format_email_summary.
CallFormatEmailSummary ==
    /\ r_pc = "format"
    /\ summary' = format_email_summary(test_suites_status)
    /\ r_pc' = "formatted"
    /\ UNCHANGED <<run_args, recipients, email_settings, sent, test_suites,
                   setup_cmds, test_suites_cmds, teardown_cmds,
                   test_suites_status, legacy, orch,
                   config, executor>>

\* ---------------------------------------------------------- specification
Next ==
    \/ O_Setup
    \/ O_AfterSetup
    \/ O_AfterRun
    \/ O_AfterTeardown
    \/ Tick
    \/ C_JoinReturns
    \/ C_JoinTimeout
    \/ C_IsAlive
    \/ C_SetFlag
    \/ C_Kill
    \/ C_FinalJoin
    \/ W_Check
    \/ W_LockProc
    \/ W_Popen
    \/ W_Communicate
    \/ W_Clear
    \/ W_Log
    \/ W_Final
    \/ W_Return
    \/ P_Exit

Spec == Init /\ [][Next]_vars

\* The same program on a system where spawning a shell may fail.
NextSpawn == Next \/ W_PopenFails

SpecSpawn == Init /\ [][NextSpawn]_vars

\* Both threads are scheduled fairly, time passes, the bounded join does not
\* outlast its timeout, and the orchestrator goes on when a call returns.  No fairness is
\* assumed of P_Exit: a command may hang forever.
FairSpec ==
    /\ Spec
    /\ WF_vars(O_Setup) /\ WF_vars(O_AfterSetup) /\ WF_vars(O_AfterRun)
    /\ WF_vars(O_AfterTeardown) /\ WF_vars(Tick)
    /\ WF_vars(C_JoinReturns) /\ WF_vars(C_JoinTimeout) /\ WF_vars(C_IsAlive)
    /\ WF_vars(C_SetFlag) /\ WF_vars(C_Kill) /\ WF_vars(C_FinalJoin)
    /\ WF_vars(W_Check) /\ WF_vars(W_LockProc) /\ WF_vars(W_Popen)
    /\ WF_vars(W_Communicate) /\ WF_vars(W_Clear) /\ WF_vars(W_Log)
    /\ WF_vars(W_Final) /\ WF_vars(W_Return)

\* The same program with the cancellation step of __call__ carried out twice.
NextCancelTwice == Next \/ C_CancelAgain

SpecCancelTwice == Init /\ [][NextCancelTwice]_vars

\* ------------------------------------------------- run_test_suites as a whole
\* Timeouts given to run_test_suites, in half minutes.
Timeouts == {-1, 0, 1, 2}

\* Lines of a test-suite configuration file.
ConfigLines ==
    { <<>>,
      <<" ", "\t", "\n">>,
      <<" ", "#", "a", "\t", "x">>,
      <<"a", "\t", "x", "\n">>,
      <<" ", "b", "\t", "y">>,
      <<"a", "\t", "z">>,
      <<"a", "#">>,
      <<"\t", "x", "\n">>,
      <<"c", "\t", "x", "\t", "y">> }

RunConfigFiles ==
    { << <<"a", "\t", "x", "\n">> >>,
      << <<" ", "#", "a", "\t", "x">>, <<"a", "\t", "x", "\n">>,
         <<" ", "b", "\t", "y">> >>,
      << <<"a", "\t", "x", "\n">>, <<"a", "\t", "z">> >>,
      << <<" ", "\t", "\n">> >> }

RunRecipientFiles ==
    { << <<"#", "c">>, <<"\t", "foo", "@", "bar", " ">> >>,
      << <<"foo", "@", "bar">>, <<"foo", ".", "bar">> >> }

RunEmailSettingsFiles ==
    { << <<"#", "c">>, <<"smtp_server", "\t", "host">>,
         <<"smtp_port", "\t", "42">>, <<"sender", "\t", "foo", "@", "bar">>,
         <<"password", "\t", "secret", "\n">> >>,
      << <<"smtp_server", "\t", "host">>, <<"smtp_port", "\t", "42">>,
         <<"sender", " ", "foo">> >> }

RunSpotBids ==
    { NoSpotBid, SpotBidStr(FALSE, 0), SpotBidFloat(0), SpotBidFloat(500),
      SpotBidStr(TRUE, 2000), SpotBidSpecial("str", "nan"),
      SpotBidSpecial("float", "inf") }

InitRun ==
    /\ config_f \in RunConfigFiles
    /\ recipients_f \in RunRecipientFiles
    /\ email_settings_f \in RunEmailSettingsFiles
    /\ cluster_template = "None"
    /\ spot_bid \in RunSpotBids
    /\ suppress_spot_bid_check \in BOOLEAN
    /\ setup_timeout \in Timeouts
    /\ test_suites_timeout \in Timeouts
    /\ teardown_timeout \in Timeouts
    /\ test_suites = <<>>
    /\ setup_cmds = <<>>
    /\ test_suites_cmds = <<>>
    /\ teardown_cmds = <<>>
    /\ o_pc = "idle"
    /\ r_pc = "start"
    /\ test_suites_status = <<>>
    /\ NothingRun

NextRun ==
    \/ R_CheckTimeouts
    \/ R_CheckSpotBid
    \/ R_ParseConfig
    \/ R_ParseEmailList
    \/ R_ParseEmailSettings
    \/ R_Build
    \/ R_SendEmail
    \/ Next

SpecRun == InitRun /\ [][NextRun]_vars

\* ------------------------------------------------ the pure functions alone
MaxConfigLines == 3

MaxStatus == 3

\* No call of the orchestrator is involved.
NoOrchestrator ==
    /\ setup_cmds = <<>>
    /\ test_suites_cmds = <<>>
    /\ teardown_cmds = <<>>
    /\ setup_timeout = 1
    /\ test_suites_timeout = 1
    /\ teardown_timeout = 1
    /\ o_pc = "idle"

\* run_test_suites is about to parse a configuration file of up to
\* MaxConfigLines lines.
InitParse ==
    /\ \E n \in 0..MaxConfigLines : config_f \in [1..n -> ConfigLines]
    /\ recipients_f = <<>>
    /\ email_settings_f = <<>>
    /\ cluster_template = "None"
    /\ spot_bid = NoSpotBid
    /\ suppress_spot_bid_check = FALSE
    /\ r_pc = "parse_config"
    /\ test_suites = <<>>
    /\ test_suites_status = <<>>
    /\ NoOrchestrator
    /\ NothingRun

SpecParse == InitParse /\ [][R_ParseConfig]_vars

FormatLabels == {Label(1), Label(2)}

FormatExitCodes == {0, 1, 255, -SIGTERM}

\* format_email_summary is about to be called with up to MaxStatus pairs.
InitFormat ==
    /\ \E n \in 0..MaxStatus :
          test_suites_status \in [1..n -> FormatLabels \X FormatExitCodes]
    /\ r_pc = "format"
    /\ test_suites = <<>>
    /\ NoRunArgs
    /\ NoOrchestrator
    /\ NothingRun

SpecFormat == InitFormat /\ [][CallFormatEmailSummary]_vars

\* --------------------------------- _build_test_execution_commands and on
\* The commands of the test suites given to _build_test_execution_commands.
SuiteExecs == {Cmd("suite", 1), Cmd("suite", 2)}

ClusterTemplates == {"None", "some_cluster_template"}

BuildSpotBids == {NoSpotBid, SpotBidFloat(50)}

\* _build_test_execution_commands is about to be called with up to MaxSuites
\* suites (none included); what it returns is then given to
\* _execute_commands_and_build_email.
InitBuild ==
    /\ \E n \in 0..MaxSuites : \E execs \in [1..n -> SuiteExecs] :
          test_suites = [i \in 1..n |-> <<Label(i), execs[i]>>]
    /\ cluster_template \in ClusterTemplates
    /\ spot_bid \in BuildSpotBids
    /\ config_f = <<>>
    /\ recipients_f = <<>>
    /\ email_settings_f = <<>>
    /\ suppress_spot_bid_check = FALSE
    /\ r_pc = "build"
    /\ test_suites_status = <<>>
    /\ NoOrchestrator
    /\ NothingRun

NextBuild == R_Build \/ Next

SpecBuild == InitBuild /\ [][NextBuild]_vars

\* ------------------- the legacy executor (automated_testing, signal-based)
\* Everything but the state of the legacy executor.
not_legacy == <<test_suites, setup_cmds, test_suites_cmds, teardown_cmds,
                run_args, recipients, email_settings, r_pc, sent,
                test_suites_status, summary, orch, config, executor>>

\* The most commands in a list given to both executors.
MaxCmds == 2

\* CommandExecutor(cmds, log_f, stop_on_first_failure, log_individual_cmds)
\* has been constructed and is called with the timeout given.
CallExecutor ==
    /\ c_pc = "idle"
    /\ StartCall(cmds, timeout)
    /\ UNCHANGED <<inputs, orch, cmds, stop_on_first_failure,
                   log_individual_cmds, log_f>>

\* Lines 347-349: cmds_succeeded = True, individual_cmds_status = [] and
\* initiate_timeout(timeout), which installs the handler and arms the alarm
\* (signal.alarm(0) arms nothing).
L_InitiateTimeout ==
    /\ legacy_pc = "idle"
    /\ legacy_cmds_succeeded' = "True"
    /\ legacy_individual_cmds_status' = <<>>
    /\ legacy_ret_vals' = <<>>
    /\ legacy_i' = 1
    /\ alarm' = (timeout > 0)
    /\ legacy_pc' = "armed"
    /\ UNCHANGED <<not_legacy, legacy_log_f>>

\* The try block is entered and the loop over cmds starts (lines 351-352).
L_Try ==
    /\ legacy_pc = "armed"
    /\ legacy_pc' = IF cmds = <<>> THEN "after_try" ELSE "system_call"
    /\ UNCHANGED <<not_legacy, alarm, legacy_i, legacy_ret_vals,
                   legacy_cmds_succeeded, legacy_individual_cmds_status,
                   legacy_log_f>>

\* _system_call(cmd): Popen with shell=True, communicate() and the return
\* code; it returns when the command ends, with the code the command chose.
L_SystemCall ==
    /\ legacy_pc = "system_call"
    /\ \E rc \in ExitCodes : legacy_ret_vals' = Append(legacy_ret_vals, rc)
    /\ legacy_pc' = "log"
    /\ UNCHANGED <<not_legacy, alarm, legacy_i, legacy_cmds_succeeded,
                   legacy_individual_cmds_status, legacy_log_f>>

\* Lines 355-365: the transcript is written to log_f and, if
\* log_individual_cmds, to a fresh TemporaryFile appended with ret_val to
\* individual_cmds_status.
L_Log ==
    /\ legacy_pc = "log"
    /\ LET cmd == cmds[legacy_i]
           t == Transcript(cmd, <<cmd, "out">>, <<cmd, "err">>)
       IN  /\ legacy_log_f' = Append(legacy_log_f, t)
           /\ legacy_individual_cmds_status' =
                 IF log_individual_cmds
                   THEN Append(legacy_individual_cmds_status,
                               <<<<t>>, legacy_ret_vals[legacy_i]>>)
                   ELSE legacy_individual_cmds_status
    /\ legacy_pc' = "check"
    /\ UNCHANGED <<not_legacy, alarm, legacy_i, legacy_ret_vals,
                   legacy_cmds_succeeded>>

\* Variant: a failure never ends the batch.
L_Check_NeverBreaks ==
    /\ legacy_pc = "check"
    /\ LET failed == legacy_ret_vals[legacy_i] # 0
       IN  /\ legacy_cmds_succeeded' =
                 IF failed THEN "False" ELSE legacy_cmds_succeeded
           /\ IF legacy_i = Len(cmds)
                THEN /\ legacy_pc' = "after_try"
                     /\ UNCHANGED legacy_i
                ELSE /\ legacy_pc' = "system_call"
                     /\ legacy_i' = legacy_i + 1
    /\ UNCHANGED <<not_legacy, alarm, legacy_ret_vals,
                   legacy_individual_cmds_status, legacy_log_f>>

\* Lines 367-370: a non-zero return value makes the outcome False and, with
\* stop_on_first_failure, ends the loop.
L_Check ==
    /\ legacy_pc = "check"
    /\ LET failed == legacy_ret_vals[legacy_i] # 0
       IN  /\ legacy_cmds_succeeded' =
                 IF failed THEN "False" ELSE legacy_cmds_succeeded
           /\ IF (failed /\ stop_on_first_failure) \/ legacy_i = Len(cmds)
                THEN /\ legacy_pc' = "after_try"
                     /\ UNCHANGED legacy_i
                ELSE /\ legacy_pc' = "system_call"
                     /\ legacy_i' = legacy_i + 1
    /\ UNCHANGED <<not_legacy, alarm, legacy_ret_vals,
                   legacy_individual_cmds_status, legacy_log_f>>

\* SIGALRM is delivered once the time the alarm was set to has passed, and
\* the handler raises TimeExceededError in the main thread wherever it is
\* (lines 28-38).  Inside the try block the except clause calls
\* disable_timeout() and sets the outcome to None (lines 371-373); anywhere
\* else nothing catches the exception.  Neither the commands nor the code
\* that follows the call take a bounded time.
L_Alarm ==
    /\ alarm
    /\ alarm' = FALSE
    /\ IF legacy_pc \in {"system_call", "log", "check"}
         THEN /\ legacy_cmds_succeeded' = "None"
              /\ legacy_pc' = "after_try"
         ELSE /\ legacy_pc' = IF legacy_pc = "returned"
                                THEN "raised_in_caller"
                                ELSE "raised"
              /\ UNCHANGED legacy_cmds_succeeded
    /\ UNCHANGED <<not_legacy, legacy_i, legacy_ret_vals,
                   legacy_individual_cmds_status, legacy_log_f>>

\* return cmds_succeeded, individual_cmds_status (line 374).
L_Return ==
    /\ legacy_pc = "after_try"
    /\ legacy_pc' = "returned"
    /\ UNCHANGED <<not_legacy, alarm, legacy_i, legacy_ret_vals,
                   legacy_cmds_succeeded, legacy_individual_cmds_status,
                   legacy_log_f>>

\* A list of up to MaxCmds commands, with any setting of
\* stop_on_first_failure and log_individual_cmds and a timeout of one minute,
\* is about to be given to both executors, each with an empty log.
InitLegacy ==
    /\ \E n \in 0..MaxCmds : cmds = [i \in 1..n |-> Cmd("cmd", i)]
    /\ stop_on_first_failure \in BOOLEAN
    /\ log_individual_cmds \in BOOLEAN
    /\ timeout = 2
    /\ test_suites = <<>>
    /\ test_suites_status = <<>>
    /\ r_pc = "none"
    /\ NoRunArgs
    /\ NoOrchestrator
    /\ NothingExecuted

\* The thread-based executor runs the list, then the legacy executor does.
NextLegacy ==
    \/ CallExecutor
    \/ Tick
    \/ C_JoinReturns
    \/ C_JoinTimeout
    \/ C_IsAlive
    \/ C_SetFlag
    \/ C_Kill
    \/ C_FinalJoin
    \/ W_Check
    \/ W_LockProc
    \/ W_Popen
    \/ W_Communicate
    \/ W_Clear
    \/ W_Log
    \/ W_Final
    \/ W_Return
    \/ P_Exit
    \/ (c_pc \in {"returned", "raised"} /\ L_InitiateTimeout)
    \/ L_Try
    \/ L_SystemCall
    \/ L_Log
    \/ L_Check
    \/ L_Alarm
    \/ L_Return

SpecLegacy == InitLegacy /\ [][NextLegacy]_vars

\* ------------------------------------------------------------ properties
Range(seq) == {seq[k] : k \in DOMAIN seq}

Count(seq, x) == Cardinality({k \in DOMAIN seq : seq[k] = x})

\* The transcript the worker writes for child process p of the current call.
TranscriptOf(p) == Transcript(procs[p].cmd, procs[p].stdout, procs[p].stderr)

\* The last n entries of the aggregate log.
LogTail(n) == SubSeq(log_f, Len(log_f) - n + 1, Len(log_f))

\* C1: whatever the outcomes of Setup and Run, the Teardown batch is started
\* exactly once: never twice, only after the Setup call has returned its
\* outcome and, if the Run batch was started, after the Run call has returned
\* its outcome; it is started as soon as Setup has failed or timed out or Run
\* has returned, and it has been started when the orchestrator is done.
C1_TeardownStartedOnce ==
    /\ Count(batches, "teardown") <= 1
    /\ "teardown" \in Range(batches) =>
          /\ batches[Len(batches)] = "teardown"
          /\ batches[1] = "setup"
          /\ setup_cmds_succeeded \in {"True", "False", "None"}
          /\ "run" \in Range(batches) =>
                test_suites_cmds_succeeded \in {"True", "False", "None"}
    /\ setup_cmds_succeeded \in {"False", "None"} =>
          "teardown" \in Range(batches)
    /\ test_suites_cmds_succeeded \in {"True", "False", "None"} =>
          "teardown" \in Range(batches)
    /\ o_pc = "done" => Count(batches, "teardown") = 1

C1_Witness ==
    /\ o_pc = "done"
    /\ setup_cmds_succeeded = "True"
    /\ test_suites_cmds_succeeded = "None"
    /\ batches = <<"setup", "run", "teardown">>

\* C2: once Setup has returned SomeFailed ("False") or TimedOut ("None"), the
\* Run batch is never started and no test-suite command is spawned or logged,
\* the report starts with the setup-failure or setup-timeout message and has
\* no per-suite line, and the aggregate log is the only attachment.
C2_SetupProblemSkipsRun ==
    setup_cmds_succeeded \in {"False", "None"} =>
        /\ "run" \notin Range(batches)
        /\ test_suites_cmds_succeeded = "unset"
        /\ \A p \in DOMAIN procs : procs[p].cmd \notin Range(test_suites_cmds)
        /\ \A k \in DOMAIN log_f : log_f[k][2] \notin Range(test_suites_cmds)
        /\ email_body[1] = Msg(IF setup_cmds_succeeded = "None"
                                 THEN "setup_timeout" ELSE "setup_failed", <<>>)
        /\ \A k \in DOMAIN email_body :
              email_body[k].msg \notin {"Pass", "Fail", "test_suites_timeout",
                                        "not_tested"}
        /\ attachments = <<[name |-> <<<<"complete_log", 0>>, ".txt">>,
                            file |-> <<"log_f">>]>>

C2_Witness ==
    /\ o_pc = "done"
    /\ setup_cmds_succeeded = "False"
    /\ Len(log_f) >= 2

\* C3: in the final report the manual-verification warning naming the
\* cluster tag is present exactly when the Teardown outcome was TimedOut or
\* SomeFailed, whatever the outcomes of Setup and Run were.
C3_TeardownWarning ==
    o_pc = "done" =>
        (teardown_cmds_succeeded \in {"False", "None"}
            <=> Msg("cluster_termination_msg", <<cluster_tag>>)
                    \in Range(email_body))

C3_Witness ==
    /\ o_pc = "done"
    /\ setup_cmds_succeeded = "None"
    /\ teardown_cmds_succeeded = "None"
    /\ email_body[Len(email_body)] =
          Msg("cluster_termination_msg", <<cluster_tag>>)

\* The worker has written the transcript of child process p.
Handled(p) ==
    \/ p < w_i
    \/ p = w_i /\ w_pc \in {"final", "loop", "return", "dead"}

\* C4: the transcript of every command the worker has waited on is in the
\* aggregate log, at its place among the transcripts of the call, from the
\* worker's write on (the worker writes it right after the wait); when the
\* call has returned every waited-on command has its transcript there; and
\* no step ever removes or changes an entry of the log, whether a later
\* command fails, the batch stops at a failure or cancellation is signalled.
C4_NoOutputLost ==
    /\ [](LET n == Cardinality({p \in DOMAIN procs :
                                  procs[p].status = "reaped" /\ Handled(p)})
          IN  /\ Len(log_f) >= n
              /\ LogTail(n) = [p \in 1..n |-> TranscriptOf(p)]
              /\ c_pc = "returned" =>
                    /\ \A p \in DOMAIN procs : procs[p].status = "reaped"
                    /\ n = Len(procs))
    /\ [][/\ Len(log_f') >= Len(log_f)
          /\ SubSeq(log_f', 1, Len(log_f)) = log_f]_vars

C4_Witness ==
    /\ c_pc = "returned"
    /\ cmds_succeeded = "None"
    /\ Len(procs) = 2
    /\ procs[1].returncode = 1
    /\ procs[2].returncode = -SIGTERM
    /\ LogTail(2) = <<TranscriptOf(1), TranscriptOf(2)>>

\* C5: when the bounded join of __call__ ran into its timeout with the
\* worker still running, the call returns TimedOut ("None").
C5_ExpiryReturnsTimedOut ==
    (c_pc = "returned" /\ deadline_expired) => cmds_succeeded = "None"

\* C6: when the worker ends before the bounded join times out, the call
\* returns AllSucceeded ("True") if every executed command had exit code 0
\* and SomeFailed ("False") otherwise, never TimedOut.
C6_NaturalCompletionOutcome ==
    (c_pc = "returned" /\ ~deadline_expired) =>
        /\ \A p \in DOMAIN procs : procs[p].status = "reaped"
        /\ cmds_succeeded =
              IF \A p \in DOMAIN procs : procs[p].returncode = 0
                THEN "True" ELSE "False"

C6_Witness ==
    /\ c_pc = "returned"
    /\ ~deadline_expired
    /\ ~stop_on_first_failure
    /\ Len(procs) = 2
    /\ procs[1].returncode = 1
    /\ procs[2].returncode = 0
    /\ cmds_succeeded = "False"

\* C7: no child process is created in a step taken with the timeout flag
\* set: once the caller has signalled cancellation the worker spawns nothing.
C7_NoSpawnAfterCancel ==
    [][Len(procs') > Len(procs) => ~timeout_occurred]_vars

C7_Witness ==
    /\ timeout_occurred
    /\ w_pc = "dead"
    /\ cmds_succeeded = "None"
    /\ Len(procs) = 1
    /\ Len(cmds) = 2
    /\ kills = <<>>

\* C8: every termination signal of a call goes to the child process of the
\* command in flight: to the latest process spawned, never to one the worker
\* has already waited on, and to no process twice.
C8_SignalOnlyInFlight ==
    /\ \A k \in DOMAIN kills :
          /\ kills[k].target = Len(procs)
          /\ kills[k].status # "reaped"
    /\ Len(kills) <= 1

\* C9: every call of __call__ eventually returns.
C9_CallReturns == (c_pc = "join") ~> (c_pc = "returned")

\* C10: when a call with stop_on_first_failure set returns without its
\* bounded join having timed out, the commands executed are exactly those up
\* to and including the first one with a nonzero exit code (all of them if no
\* command failed), and their transcripts are the last entries of the log, in
\* order; no later command was spawned.
C10_StopOnFirstFailure ==
    (c_pc = "returned" /\ stop_on_first_failure /\ ~deadline_expired) =>
        LET failed == {p \in DOMAIN procs : procs[p].returncode # 0}
        IN  /\ \A p \in DOMAIN procs : procs[p].cmd = cmds[p]
            /\ IF failed = {}
                 THEN Len(procs) = Len(cmds)
                 ELSE /\ Len(procs) \in failed
                      /\ \A p \in failed : p = Len(procs)
            /\ Len(log_f) >= Len(procs)
            /\ LogTail(Len(procs)) = [p \in 1..Len(procs) |-> TranscriptOf(p)]

C10_Witness ==
    /\ c_pc = "returned"
    /\ stop_on_first_failure
    /\ ~deadline_expired
    /\ Len(cmds) = 3
    /\ Len(procs) = 2
    /\ procs[1].returncode = 0
    /\ procs[2].returncode = 1
    /\ cmds_succeeded = "False"

C12_ResultsOnlyFinishedBeforeExpiry ==
    (c_pc = "returned" /\ cmds_succeeded = "None" /\ log_individual_cmds) =>
        Len(individual_cmds_status) = finished_at_expiry

\* C12 as amended: when a call with log_individual_cmds set returns
\* TimedOut, there is one result for each command that was spawned, all of
\* them waited on, in order and with the command's return code: the commands
\* that had ended when the join timed out and those that ended afterwards,
\* among them the command terminated by the signal (return code -SIGTERM);
\* there is no result for a command that was not spawned.
C12_ResultsForEverySpawned ==
    (c_pc = "returned" /\ cmds_succeeded = "None" /\ log_individual_cmds) =>
        /\ Len(individual_cmds_status) = Len(procs)
        /\ Len(individual_cmds_status) >= finished_at_expiry
        /\ Len(individual_cmds_status) <= Len(cmds)
        /\ \A p \in DOMAIN procs :
              /\ procs[p].status = "reaped"
              /\ individual_cmds_status[p][2] = procs[p].returncode
        /\ \A k \in DOMAIN kills :
              kills[k].status = "running" =>
                  individual_cmds_status[kills[k].target][2] = -SIGTERM

C12_Witness ==
    /\ c_pc = "returned"
    /\ cmds_succeeded = "None"
    /\ log_individual_cmds
    /\ finished_at_expiry = 1
    /\ Len(individual_cmds_status) = 2
    /\ individual_cmds_status[2][2] = -SIGTERM

\* C13 as claimed: when a call returns without its join having timed out and
\* every command exited zero, the outcome is AllSucceeded and the result list
\* is as long as the command list.
C13_AllZeroFullResultList ==
    (/\ c_pc = "returned"
     /\ ~deadline_expired
     /\ \A p \in DOMAIN procs : procs[p].returncode = 0) =>
        /\ cmds_succeeded = "True"
        /\ Len(individual_cmds_status) = Len(cmds)

\* C13 as amended: in that case the outcome is AllSucceeded and every command
\* was executed; the result list has one entry per command, in input order
\* (the command's transcript and return code 0), when log_individual_cmds is
\* set, and is empty when it is not.
C13_AllZeroOutcomeAndResults ==
    (/\ c_pc = "returned"
     /\ ~deadline_expired
     /\ \A p \in DOMAIN procs : procs[p].returncode = 0) =>
        /\ cmds_succeeded = "True"
        /\ Len(procs) = Len(cmds)
        /\ IF log_individual_cmds
             THEN individual_cmds_status =
                     [k \in 1..Len(cmds) |->
                         <<<<Transcript(cmds[k], <<cmds[k], "out">>,
                                        <<cmds[k], "err">>)>>, 0>>]
             ELSE individual_cmds_status = <<>>

C13_Witness ==
    /\ c_pc = "returned"
    /\ ~deadline_expired
    /\ log_individual_cmds
    /\ cmds_succeeded = "True"
    /\ Len(individual_cmds_status) = 2

\* C14: the commands executed in a batch are a prefix of the submitted list,
\* one child process each; no command has two transcripts in the aggregate
\* log and the transcripts of a batch are there in submission order; the
\* k-th result, if results are kept, holds exactly the transcript and the
\* return code of the k-th command.
C14_PrefixInSubmissionOrder ==
    /\ Len(procs) <= Len(cmds)
    /\ \A p \in DOMAIN procs : procs[p].cmd = cmds[p]
    /\ \A j, k \in DOMAIN log_f :
          j < k =>
              /\ log_f[j][2] # log_f[k][2]
              /\ log_f[j][2][1] = log_f[k][2][1] => log_f[j][2][2] < log_f[k][2][2]
    /\ \A k \in DOMAIN log_f :
          log_f[k][2][1] = cmds[1][1] =>
              /\ log_f[k][2][2] \in DOMAIN procs
              /\ log_f[k] = TranscriptOf(log_f[k][2][2])
    /\ Len(individual_cmds_status) <= Len(procs)
    /\ \A k \in DOMAIN individual_cmds_status :
          individual_cmds_status[k] = <<<<TranscriptOf(k)>>, procs[k].returncode>>

C14_Witness ==
    /\ c_pc = "returned"
    /\ log_individual_cmds
    /\ Len(individual_cmds_status) = 2
    /\ Len(log_f) >= 4

\* C15: at most one child process is running at any time and every child
\* but the latest has been waited on; a batch is started only when no worker
\* thread is alive and no child is running.
C15_OneChildOneWorker ==
    /\ [](/\ Cardinality({p \in DOMAIN procs : procs[p].status = "running"}) <= 1
          /\ \A p \in DOMAIN procs :
                p < Len(procs) => procs[p].status = "reaped")
    /\ [][batches' # batches =>
             /\ w_pc \in {"none", "dead"}
             /\ \A p \in DOMAIN procs : procs[p].status = "reaped"]_vars

C15_Witness ==
    /\ batches = <<"setup", "run">>
    /\ Len(procs) = 2
    /\ procs[1].status = "reaped"
    /\ procs[2].status = "running"

\* The number of Pass/Fail lines of the report for a label, and the number
\* of times the label is named as not tested.
ResultLines(body, label) ==
    Cardinality({k \in DOMAIN body :
                    body[k].msg \in {"Pass", "Fail"} /\ body[k].arg = <<label>>})

UntestedMentions(body, label) ==
    Cardinality({kj \in {<<k, j>> : k \in DOMAIN body, j \in DOMAIN test_suites} :
                    /\ body[kj[1]].msg = "not_tested"
                    /\ kj[2] \in DOMAIN body[kj[1]].arg
                    /\ body[kj[1]].arg[kj[2]] = label})

SuitesRun == {k \in DOMAIN log_f : log_f[k][2][1] = "suite"}

\* C17: from the first call on, the attachments are the aggregate log
\* followed, once the Run call has returned, by one '<label>_results.txt'
\* per suite that ran, in suite order, each holding that suite's transcript;
\* nothing is attached for setup or teardown commands or for suites that did
\* not run.
C17_Attachments ==
    o_pc # "start" =>
        /\ Len(attachments) >= 1
        /\ attachments[1] = [name |-> <<<<"complete_log", 0>>, ".txt">>,
                             file |-> <<"log_f">>]
        /\ Len(attachments) =
              IF o_pc \in {"teardown", "done"} THEN 1 + Cardinality(SuitesRun)
              ELSE 1
        /\ \A k \in 2..Len(attachments) :
              /\ attachments[k].name = <<test_suites[k - 1][1], "_results.txt">>
              /\ Len(attachments[k].file) = 1
              /\ attachments[k].file[1][2] = test_suites[k - 1][2]
              /\ attachments[k].file[1] \in Range(log_f)

C17_Witness ==
    /\ o_pc = "done"
    /\ Len(test_suites) = 2
    /\ Len(attachments) = 2
    /\ test_suites_cmds_succeeded = "None"

TeardownMsgs == {"teardown_timeout", "teardown_failed", "cluster_termination_msg"}

\* C18 as claimed: when Setup failed or timed out, the final report has the
\* setup message and also a teardown result or note, whatever the Teardown
\* outcome was.
C18_TeardownAlwaysInReport ==
    (o_pc = "done" /\ setup_cmds_succeeded \in {"False", "None"}) =>
        /\ email_body[1].msg \in {"setup_failed", "setup_timeout"}
        /\ \E k \in DOMAIN email_body : email_body[k].msg \in TeardownMsgs

\* C18 as amended: when Setup failed or timed out, the Teardown batch is still
\* started and has an outcome (unless it timed out, the transcripts of all
\* teardown commands end the aggregate log), and the final report is the
\* setup message followed by the teardown message with the
\* manual-verification note when Teardown failed or timed out; when Teardown
\* succeeded the report is the setup message alone.
C18_TeardownRunAndReportedOnFailure ==
    (o_pc = "done" /\ setup_cmds_succeeded \in {"False", "None"}) =>
        /\ teardown_cmds_succeeded \in {"True", "False", "None"}
        /\ batches = <<"setup", "teardown">>
        /\ teardown_cmds_succeeded # "None" =>
              /\ Len(log_f) >= Len(teardown_cmds)
              /\ \A k \in DOMAIN teardown_cmds :
                    log_f[Len(log_f) - Len(teardown_cmds) + k][2] = teardown_cmds[k]
        /\ email_body =
              <<Msg(IF setup_cmds_succeeded = "None"
                      THEN "setup_timeout" ELSE "setup_failed", <<>>)>>
              \o (IF teardown_cmds_succeeded = "True" THEN <<>>
                  ELSE <<Msg(IF teardown_cmds_succeeded = "None"
                               THEN "teardown_timeout" ELSE "teardown_failed",
                             <<>>),
                         Msg("cluster_termination_msg", <<cluster_tag>>)>>)

C18_Witness ==
    /\ o_pc = "done"
    /\ setup_cmds_succeeded = "False"
    /\ teardown_cmds_succeeded = "False"
    /\ Len(email_body) = 3

\* C19: a call in which a spawn failed does not return a normal outcome.
C19_SpawnErrorSurfaces == spawn_failed => c_pc # "returned"

\* C20: a call in which every spawn succeeds never raises.
C20_NeverRaises == c_pc # "raised"

\* The timeouts run_test_suites rejects, and the failure of one of the three
\* parsers on its input file.
InvalidTimeouts ==
    setup_timeout <= 0 \/ test_suites_timeout <= 0 \/ teardown_timeout <= 0

ParseFails ==
    \/ parse_config_file(config_f).exception = "ValueError"
    \/ parse_email_list(recipients_f).exception = "ValueError"
    \/ parse_email_settings(email_settings_f).exception = "ValueError"

\* C21: with a timeout that is zero or negative, or an input file that one
\* of the three parsers rejects, run_test_suites never gets to the batches:
\* no executor is called, no command is spawned or logged and no email is
\* sent, and the same holds whenever it has raised ValueError; the timeout
\* check raises exactly when a timeout is not strictly positive (half a
\* minute is accepted) and each parser's failure is raised as ValueError.
C21_InvalidInputRaisesBeforeAnyBatch ==
    /\ []((InvalidTimeouts \/ ParseFails \/ r_pc = "ValueError") =>
             /\ o_pc = "idle"
             /\ batches = <<>>
             /\ procs = <<>>
             /\ log_f = <<>>
             /\ w_pc = "none"
             /\ sent = <<>>
             /\ r_pc \notin {"execute", "done"})
    /\ [][r_pc = "start" =>
             r_pc' = IF InvalidTimeouts THEN "ValueError" ELSE "spot_bid"]_vars
    /\ [][(/\ r_pc = "parse_config"
           /\ parse_config_file(config_f).exception = "ValueError") =>
             r_pc' = "ValueError"]_vars
    /\ [][(/\ r_pc = "parse_recipients"
           /\ parse_email_list(recipients_f).exception = "ValueError") =>
             r_pc' = "ValueError"]_vars
    /\ [][(/\ r_pc = "parse_settings"
           /\ parse_email_settings(email_settings_f).exception = "ValueError")
             => r_pc' = "ValueError"]_vars

C21_Witness ==
    /\ r_pc = "ValueError"
    /\ setup_timeout = 1
    /\ test_suites_timeout = 2
    /\ teardown_timeout = 1
    /\ Len(test_suites) = 2
    /\ Len(recipients) = 1
    /\ email_settings = <<>>
    /\ batches = <<>>

\* C22 as claimed: a thread that is spawning a child, waiting on a child or
\* joining the worker holds neither the process lock nor the flag lock.
C22_NoLockAcrossBlockingCall ==
    /\ w_pc \in {"popen", "communicate"} =>
          /\ running_process_lock # "worker"
          /\ timeout_occurred_lock # "worker"
    /\ c_pc \in {"join", "final_join"} =>
          /\ running_process_lock # "main"
          /\ timeout_occurred_lock # "main"

\* C22 as amended: the process lock is held across steps only by the worker
\* while it spawns a child and assigns the reference, inside the flag lock
\* taken at the flag test; otherwise a lock is held only for the single step
\* of an assignment, a flag test or the termination signal.  No thread holds
\* a lock while it waits on a child's output and exit or joins the worker.
C22_LocksHeldOnlyToSpawnAssignOrSignal ==
    /\ running_process_lock \in {"free", "worker"}
    /\ timeout_occurred_lock \in {"free", "worker"}
    /\ running_process_lock = "worker" =>
          w_pc = "popen" /\ timeout_occurred_lock = "worker"
    /\ timeout_occurred_lock = "worker" => w_pc \in {"lock_proc", "popen"}
    /\ w_pc \notin {"lock_proc", "popen"} =>
          /\ running_process_lock = "free"
          /\ timeout_occurred_lock = "free"

C22_Witness ==
    /\ w_pc = "popen"
    /\ running_process_lock = "worker"
    /\ timeout_occurred_lock = "worker"
    /\ c_pc = "set_flag"
    /\ Len(procs) = 1

\* C23: carrying out the cancellation step a second time changes nothing:
\* the signal goes to no process the worker has already waited on, nothing
\* is raised, and the flag, the reference, the child processes, the outcome
\* and the results are as the first cancellation left them.
C23_CancellationIdempotent ==
    [][(c_pc = "final_join" /\ kills' # kills) =>
          /\ kills'[Len(kills')].status # "reaped"
          /\ c_pc' = "final_join"
          /\ procs' = procs
          /\ timeout_occurred' = timeout_occurred
          /\ running_process' = running_process
          /\ cmds_succeeded' = cmds_succeeded
          /\ individual_cmds_status' = individual_cmds_status]_vars

\* A line is ignorable iff, trimmed, it is empty or starts with '#'.
Ignorable(line) == strip(line) = <<>> \/ strip(line)[1] = "#"

\* C24: parse_config_file raises ValueError when a non-ignorable line does
\* not split into exactly two tab-separated fields, when two lines have the
\* same label or when every line is ignorable; otherwise it returns the
\* non-empty list of the [label, command] pairs of the non-ignorable lines,
\* one per line and in file order, with pairwise distinct labels.
C24_ParseConfigFile ==
    r_pc # "parse_config" =>
        LET kept == SelectSeq(config_f, LAMBDA line : ~Ignorable(line))
            fields == [k \in DOMAIN kept |-> split(strip(kept[k]), "\t")]
            malformed == \E k \in DOMAIN fields : Len(fields[k]) # 2
            repeated == \E j, k \in DOMAIN fields :
                            /\ j < k
                            /\ Len(fields[j]) = 2
                            /\ Len(fields[k]) = 2
                            /\ fields[j][1] = fields[k][1]
        IN  IF malformed \/ repeated \/ Len(kept) = 0
              THEN r_pc = "ValueError" /\ test_suites = <<>>
              ELSE /\ r_pc = "parse_recipients"
                   /\ test_suites = fields
                   /\ Len(test_suites) >= 1
                   /\ \A j, k \in DOMAIN test_suites :
                         j # k => test_suites[j][1] # test_suites[k][1]

C24_Witness ==
    /\ r_pc = "parse_recipients"
    /\ config_f = << <<" ", "#", "a", "\t", "x">>, <<"a", "\t", "x", "\n">>,
                     <<" ", "b", "\t", "y">> >>
    /\ test_suites = << << <<"a">>, <<"x">> >>, << <<"b">>, <<"y">> >> >>

\* C25: format_email_summary returns one line per pair, in input order,
\* '<label>: Pass' for exit code 0 and '<label>: Fail' for any other, then
\* one blank line; for the empty list it returns the empty string.
C25_FormatEmailSummary ==
    r_pc = "formatted" =>
        IF test_suites_status = <<>> THEN summary = <<>>
        ELSE /\ Len(summary) = Len(test_suites_status) + 1
             /\ \A k \in DOMAIN test_suites_status :
                   summary[k] = Msg(IF test_suites_status[k][2] = 0
                                      THEN "Pass" ELSE "Fail",
                                    <<test_suites_status[k][1]>>)
             /\ summary[Len(summary)] = Msg("blank", <<>>)

C25_Witness ==
    /\ r_pc = "formatted"
    /\ test_suites_status =
          <<<<Label(2), 0>>, <<Label(1), -SIGTERM>>, <<Label(2), 255>>>>
    /\ Len(summary) = 4

\* The timeout argument of run_test_suites for the batch last started.
OwnTimeout ==
    CASE batches[Len(batches)] = "setup" -> setup_timeout
      [] batches[Len(batches)] = "run" -> test_suites_timeout
      [] batches[Len(batches)] = "teardown" -> teardown_timeout

\* C26: the bounded wait of each batch is given that phase's own timeout;
\* its timer starts from zero in the step that starts the batch's worker,
\* the wait never lasts longer than the phase's timeout, and it times out
\* exactly when that much time has passed since the batch was started,
\* whatever time the earlier batches took.
C26_EachPhaseOwnTimeout ==
    /\ [](batches # <<>> =>
             /\ timeout = OwnTimeout
             /\ elapsed <= JoinSeconds(OwnTimeout))
    /\ [][batches' # batches =>
             /\ elapsed' = 0
             /\ c_pc' = "join"
             /\ w_pc' = "loop"]_vars
    /\ [][(deadline_expired' /\ ~deadline_expired) =>
             elapsed = JoinSeconds(OwnTimeout)]_vars

C26_Witness ==
    /\ batches = <<"setup", "run", "teardown">>
    /\ setup_timeout = 2
    /\ test_suites_timeout = 1
    /\ teardown_timeout = 2
    /\ setup_cmds_succeeded = "True"
    /\ test_suites_cmds_succeeded = "None"
    /\ c_pc = "join"
    /\ elapsed = JoinSeconds(2)

\* C27: Setup runs with stop_on_first_failure set and log_individual_cmds
\* not, Run with the opposite, Teardown with neither, whether or not Run was
\* executed; so a Teardown call that returns without its join having timed
\* out has executed every teardown command whatever their exit codes, and
\* Teardown returns no results and adds no attachment.
C27_FlagsPerPhase ==
    /\ [](batches # <<>> =>
             /\ stop_on_first_failure = (batches[Len(batches)] = "setup")
             /\ log_individual_cmds = (batches[Len(batches)] = "run"))
    /\ []((o_pc = "teardown" /\ c_pc = "returned" /\ ~deadline_expired) =>
             /\ Len(procs) = Len(teardown_cmds)
             /\ \A p \in DOMAIN procs : procs[p].cmd = teardown_cmds[p])
    /\ [](o_pc \in {"teardown", "done"} => individual_cmds_status = <<>>)
    /\ [][o_pc = "teardown" => attachments' = attachments]_vars

C27_Witness ==
    /\ o_pc = "teardown"
    /\ c_pc = "returned"
    /\ batches = <<"setup", "teardown">>
    /\ Len(procs) = 2
    /\ procs[1].returncode = 1
    /\ procs[2].status = "reaped"

\* The place of a command's phase in the order Setup, Run, Teardown.
PhaseRank(cmd) ==
    CASE cmd[1] = "setup" -> 1
      [] cmd[1] = "suite" -> 2
      [] cmd[1] = "teardown" -> 3

\* C28: a step either leaves the aggregate log alone or adds one transcript
\* at its end, and the step that starts a batch leaves it alone; when a call
\* has returned, the log is what the earlier batches wrote followed by the
\* transcripts of this batch's commands in order; so the log always holds
\* the Setup transcripts, then the Run transcripts, then the Teardown
\* transcripts.
C28_AggregateLogAppendOnly ==
    /\ [][\/ log_f' = log_f
          \/ /\ Len(log_f') = Len(log_f) + 1
             /\ SubSeq(log_f', 1, Len(log_f)) = log_f]_vars
    /\ [][batches' # batches => log_f' = log_f]_vars
    /\ [](\A j, k \in DOMAIN log_f :
             j < k => PhaseRank(log_f[j][2]) <= PhaseRank(log_f[k][2]))
    /\ [](c_pc = "returned" =>
             /\ Len(log_f) >= Len(procs)
             /\ LogTail(Len(procs)) = [p \in 1..Len(procs) |-> TranscriptOf(p)]
             /\ \A k \in 1..(Len(log_f) - Len(procs)) :
                   PhaseRank(log_f[k][2]) < PhaseRank(cmds[1]))

C28_Witness ==
    /\ o_pc = "done"
    /\ Len(log_f) = 4
    /\ log_f[1][2] = Cmd("setup", 1)
    /\ log_f[2][2] = Cmd("suite", 1)
    /\ log_f[3][2] = Cmd("suite", 2)
    /\ log_f[4][2] = Cmd("teardown", 1)

\* C29: a call returns the empty result list when log_individual_cmds is not
\* set, however many commands ran; when it is set the list has one entry for
\* each command whose process was waited on, in execution order, each with
\* that command's transcript alone and its return code.
C29_ResultListFollowsFlag ==
    c_pc = "returned" =>
        IF ~log_individual_cmds THEN individual_cmds_status = <<>>
        ELSE LET waited == {p \in DOMAIN procs : procs[p].status = "reaped"}
             IN  /\ waited = 1..Len(individual_cmds_status)
                 /\ \A k \in DOMAIN individual_cmds_status :
                       individual_cmds_status[k] =
                           <<<<TranscriptOf(k)>>, procs[k].returncode>>

C29_Witness ==
    /\ o_pc = "teardown"
    /\ c_pc = "returned"
    /\ batches = <<"setup", "run", "teardown">>
    /\ test_suites_cmds_succeeded = "False"
    /\ Len(attachments) = 3
    /\ Len(procs) = 2
    /\ individual_cmds_status = <<>>

\* C30: when the orchestrator is done every attachment has been rewound and
\* no worker thread is alive; from then on no step writes to the aggregate
\* log or to a per-suite log or moves a file position.
C30_ArtifactsRewoundAndFinal ==
    /\ [](o_pc = "done" =>
             /\ Len(attachments) >= 1
             /\ rewound = DOMAIN attachments
             /\ w_pc = "dead")
    /\ [][o_pc = "done" =>
             /\ log_f' = log_f
             /\ attachments' = attachments
             /\ individual_cmds_status' = individual_cmds_status
             /\ rewound' = rewound]_vars

C30_Witness ==
    /\ o_pc = "done"
    /\ test_suites_cmds_succeeded = "None"
    /\ Len(attachments) = 3
    /\ rewound = {1, 2, 3}

\* The parts a report is made of.
IsSetupPart(s) ==
    Len(s) = 1 /\ s[1].msg \in {"setup_timeout", "setup_failed"}

IsSummaryPart(s) ==
    \/ s = <<>>
    \/ /\ Len(s) >= 2
       /\ s[Len(s)] = Msg("blank", <<>>)
       /\ \A k \in 1..(Len(s) - 1) : s[k].msg \in {"Pass", "Fail"}

IsNoticePart(s) ==
    \/ s = <<>>
    \/ Len(s) = 1 /\ s[1].msg = "test_suites_timeout"
    \/ Len(s) = 2 /\ s[1].msg = "test_suites_timeout" /\ s[2].msg = "not_tested"

IsTeardownPart(s) ==
    \/ s = <<>>
    \/ /\ Len(s) = 2
       /\ s[1].msg \in {"teardown_timeout", "teardown_failed"}
       /\ s[2] = Msg("cluster_termination_msg", <<cluster_tag>>)

\* C31: at every moment, and so when the orchestrator is done, the report is
\* a first part followed by a teardown part; the first part is either one
\* setup message (Setup timed out or failed) or the per-suite summary
\* (Pass/Fail lines ended by a blank line, or nothing) followed by nothing or
\* by the run-timeout notice with or without the list of untested suites;
\* the teardown part is nothing or one teardown message followed by the
\* manual-verification warning; a report with a setup message has no
\* Pass/Fail line, and a finished report has a setup message exactly when
\* Setup did not succeed and a notice exactly when Run timed out.
C31_ReportStructure ==
    /\ \E i \in 0..Len(email_body) :
          /\ IsTeardownPart(SubSeq(email_body, i + 1, Len(email_body)))
          /\ \/ IsSetupPart(SubSeq(email_body, 1, i))
             \/ \E m \in 0..i :
                   /\ IsSummaryPart(SubSeq(email_body, 1, m))
                   /\ IsNoticePart(SubSeq(email_body, m + 1, i))
    /\ (\E k \in DOMAIN email_body :
            email_body[k].msg \in {"setup_timeout", "setup_failed"}) =>
          \A k \in DOMAIN email_body : email_body[k].msg \notin {"Pass", "Fail"}
    /\ o_pc = "done" =>
          /\ (setup_cmds_succeeded # "True") =
                (email_body # <<>> /\ IsSetupPart(<<email_body[1]>>))
          /\ (test_suites_cmds_succeeded = "None") =
                (\E k \in DOMAIN email_body :
                    email_body[k].msg = "test_suites_timeout")

C31_Witness ==
    /\ o_pc = "done"
    /\ Len(email_body) = 6
    /\ email_body[1].msg = "Fail"
    /\ email_body[3].msg = "test_suites_timeout"
    /\ email_body[4].msg = "not_tested"
    /\ email_body[5].msg = "teardown_failed"

\* The test suite whose command is cmd, a command built by
\* _build_test_execution_commands.
ExecOf(cmd) == cmd[Len(cmd) - 1]

NotNumeric(bid) == bid.kind = "str" /\ ~bid.numeric

ZeroOrNegative(bid) == bid.special = "no" /\ bid.cents <= 0

ExceedsMax(bid) ==
    bid.special = "inf" \/ (bid.special = "no" /\ bid.cents > MAX_SPOT_BID)

SpotBidRejected ==
    /\ spot_bid.kind # "None"
    /\ \/ NotNumeric(spot_bid)
       \/ ZeroOrNegative(spot_bid)
       \/ ExceedsMax(spot_bid) /\ ~suppress_spot_bid_check

\* C33: with a spot bid that float() does not convert, that is zero or
\* negative, or that is above MAX_SPOT_BID while suppress_spot_bid_check is
\* False, the spot-bid check of run_test_suites raises ValueError, and no
\* file has been parsed, no batch started and no email sent, then or ever;
\* every other bid passes the check (nan, which float() converts and which
\* no comparison rejects, among them), so a bid above MAX_SPOT_BID passes
\* only with suppress_spot_bid_check set; without a spot bid the check does
\* nothing and the files are parsed next.
C33_SpotBidValidation ==
    /\ [][r_pc = "spot_bid" =>
             /\ r_pc' = IF SpotBidRejected THEN "ValueError" ELSE "parse_config"
             /\ (ExceedsMax(spot_bid) /\ r_pc' = "parse_config") =>
                    suppress_spot_bid_check
             /\ spot_bid.kind = "None" => spot_bid' = spot_bid]_vars
    /\ [](SpotBidRejected =>
             /\ r_pc \in {"start", "spot_bid", "ValueError"}
             /\ test_suites = <<>>
             /\ recipients = <<>>
             /\ email_settings = <<>>
             /\ o_pc = "idle"
             /\ batches = <<>>
             /\ procs = <<>>
             /\ sent = <<>>)

C33_Witness ==
    /\ r_pc = "ValueError"
    /\ ~InvalidTimeouts
    /\ ~ParseFails
    /\ ExceedsMax(spot_bid)
    /\ spot_bid.special = "no"
    /\ ~suppress_spot_bid_check

\* C34: the caller and the worker never wait for each other's locks: the
\* worker, the only thread that asks for one lock while holding the other,
\* always finds the process lock free or sees it freed (the caller holds it
\* for the signal only and asks for nothing meanwhile), and under fair
\* scheduling every thread that asks for a lock gets it: the caller sets the
\* flag and gets to the signal, the worker gets through its flag test, its
\* spawn, its clearing of the reference and its final flag test, whatever
\* the other thread is doing and even when the command never ends.
C34_NoLockDeadlock ==
    /\ [](w_pc \in {"lock_proc", "popen"} =>
             /\ timeout_occurred_lock = "worker"
             /\ running_process_lock \in {"free", "worker"})
    /\ [](w_pc \notin {"lock_proc", "popen"} =>
             /\ timeout_occurred_lock = "free"
             /\ running_process_lock = "free")
    /\ (c_pc = "set_flag") ~> (c_pc = "kill")
    /\ (c_pc = "kill") ~> (c_pc \in {"final_join", "raised"})
    /\ (w_pc = "loop") ~> (w_pc \in {"lock_proc", "return"})
    /\ (w_pc = "lock_proc") ~> (w_pc = "popen")
    /\ (w_pc = "popen") ~> (w_pc = "communicate")
    /\ (w_pc = "clear") ~> (w_pc = "log")
    /\ (w_pc = "final") ~> (w_pc \in {"loop", "return"})

C34_Witness ==
    /\ c_pc = "set_flag"
    /\ w_pc = "lock_proc"
    /\ timeout_occurred_lock = "worker"
    /\ Len(procs) = 1
    /\ procs[1].status = "reaped"

\* A termination signal of the current call reached process p while it ran.
Terminated(p) ==
    \E k \in DOMAIN kills : kills[k].target = p /\ kills[k].status = "running"

C36_TimedOutSuiteHasResult ==
    \A k \in DOMAIN email_body :
        email_body[k].msg = "test_suites_timeout" =>
            /\ ResultLines(email_body, email_body[k].arg[1]) = 1
            /\ UntestedMentions(email_body, email_body[k].arg[1]) = 0

\* C37: a call that returns TimedOut has terminated a command by the signal
\* or has left a command of its list unstarted; and the suite the report
\* names as the one during which Run timed out has no Pass line.
C37_TimedOutMeansCutShort ==
    /\ (c_pc = "returned" /\ cmds_succeeded = "None") =>
          \/ Len(procs) < Len(cmds)
          \/ \E p \in DOMAIN procs : procs[p].returncode = -SIGTERM
    /\ \A k \in DOMAIN email_body :
          email_body[k].msg = "test_suites_timeout" =>
              Msg("Pass", email_body[k].arg) \notin Range(email_body)

\* C38: every step that starts a call of the executor, the first one or a
\* later one on the reused object, sets the outcome to True, the result list
\* to empty, the timeout flag to False and the process reference to None,
\* with both locks free; so when a call returns, whatever the earlier calls
\* returned, SomeFailed means that a command of this call exited nonzero,
\* TimedOut means that this call's own bounded join timed out, AllSucceeded
\* is returned when neither happened, and every result is the transcript and
\* return code of a command spawned in this call, in order.
C38_EachCallStartsFresh ==
    /\ [][(c_pc # "join" /\ c_pc' = "join") =>
             /\ cmds_succeeded' = "True"
             /\ individual_cmds_status' = <<>>
             /\ ~timeout_occurred'
             /\ running_process' = NoProcess
             /\ running_process_lock' = "free"
             /\ timeout_occurred_lock' = "free"
             /\ procs' = <<>>]_vars
    /\ [](c_pc = "returned" =>
             /\ cmds_succeeded = "False" =>
                   \E p \in DOMAIN procs : procs[p].returncode # 0
             /\ cmds_succeeded = "None" => deadline_expired /\ timeout_occurred
             /\ (/\ ~deadline_expired
                 /\ \A p \in DOMAIN procs : procs[p].returncode = 0) =>
                   cmds_succeeded = "True"
             /\ Len(individual_cmds_status) <= Len(procs)
             /\ \A k \in DOMAIN individual_cmds_status :
                   /\ individual_cmds_status[k][1] = <<TranscriptOf(k)>>
                   /\ individual_cmds_status[k][2] = procs[k].returncode
                   /\ procs[k].cmd = cmds[k])

C38_Witness ==
    /\ o_pc = "teardown"
    /\ c_pc = "returned"
    /\ setup_cmds_succeeded = "True"
    /\ test_suites_cmds_succeeded = "None"
    /\ cmds_succeeded = "True"
    /\ individual_cmds_status = <<>>
    /\ ~timeout_occurred

\* C39: in the legacy executor the alarm armed at the start of a batch is
\* disarmed by the time _execute_commands returns, on every path, so
\* TimeExceededError is never raised in the code that follows the call.
C39_AlarmDisarmedAtReturn ==
    /\ legacy_pc = "returned" => ~alarm
    /\ legacy_pc # "raised_in_caller"

\* Both executors were given the list and completed before the deadline: the
\* bounded join returned without timing out and the alarm did not fire.
BothCompleted ==
    /\ c_pc = "returned"
    /\ ~deadline_expired
    /\ legacy_pc = "returned"
    /\ legacy_cmds_succeeded # "None"

\* The commands that both executors ran ended with the same exit codes.
SameExitCodes ==
    \A k \in 1..Min(Len(procs), Len(legacy_ret_vals)) :
        procs[k].returncode = legacy_ret_vals[k]

\* The exit codes of a result list, in order.
RetVals(status) == [k \in 1..Len(status) |-> status[k][2]]

\* C40: when a batch whose commands end the same way completes before the
\* deadline under both executors, the legacy _execute_commands and the
\* thread-based CommandExecutor give the same outcome, the same sequence of
\* exit codes in the result list and the same sequence of transcripts in
\* the log, for every command list and every setting of
\* stop_on_first_failure and log_individual_cmds.
C40_LegacyAndThreadedAgree ==
    (BothCompleted /\ SameExitCodes) =>
        /\ legacy_cmds_succeeded = cmds_succeeded
        /\ RetVals(legacy_individual_cmds_status) =
              RetVals(individual_cmds_status)
        /\ legacy_log_f = log_f

\* Both executors stopped at the failure of the first of two commands and
\* recorded it.
C40_Witness ==
    /\ BothCompleted
    /\ SameExitCodes
    /\ Len(cmds) = 2
    /\ stop_on_first_failure
    /\ log_individual_cmds
    /\ cmds_succeeded = "False"
    /\ Len(log_f) = 1
    /\ Len(legacy_individual_cmds_status) = 1

====
